---- MODULE Spec2Model ----
(***************************************************************************)
(* Model of the invoice parser's database reconciliation and batch export: *)
(*   DBConnector.get_factura_data_from_db   (src/db_connector.py)          *)
(*   DBConnector.compare_with_facturas      (src/db_connector.py)          *)
(*   DBConnector.extract_date_range_from_facturas                          *)
(*   procesar_multiples_facturas            (src/exportacion.py)           *)
(*                                                                         *)
(* Numbers are fixed point: the integer k stands for k/2, so that the 0.5  *)
(* tolerance of the reactive-energy fields is one unit and the tolerance   *)
(* of 1 of the components is two.  On these values Python's float          *)
(* arithmetic is exact.  Percentages are kept as fractions n/d.            *)
(* Identifiers carry the source's names with accents removed.              *)
(***************************************************************************)
EXTENDS Integers, Sequences, FiniteSets, TLC

(***************************************************************************)
(* Bounds of the model.                                                    *)
(***************************************************************************)
\* invoice values are drawn within MaxDelta half-units of the database value
MaxDelta == 3
\* files in the input directory
MaxArchivos == 2
\* rows of the database table
MaxFilasDB == 2

(***************************************************************************)
(* Program constants.                                                      *)
(***************************************************************************)
\* 0.5, in half-units (db_connector.py:502)
TOL_REACTIVA == 1
\* 1, in half-units (db_connector.py:624)
TOL_COMPONENTE == 2
\* 1 percent (db_connector.py:522)
UMBRAL_PORCENTAJE == 1
\* the difference reported when the database value is 0 (db_connector.py:515)
DIFERENCIA_SIN_BASE == 100

\* one currency unit in half-units
Uno == TOL_COMPONENTE
\* 100 currency units
Base == 100 * Uno

(***************************************************************************)
(* Python values: None, numbers, strings, and billing periods (strings     *)
(* "YYYY-MM-DD" or "YYYY-MM-DD a YYYY-MM-DD", kept parsed).                *)
(***************************************************************************)
None == [t |-> "none"]
Num(n) == [t |-> "num", v |-> n]
Str(s) == [t |-> "str", s |-> s]
SinFecha == <<>>
Periodo(inicio, fin) == [t |-> "periodo", inicio |-> inicio, fin |-> fin]

Abs(x) == IF x < 0 THEN -x ELSE x

\* bool(x)
Truthy(x) ==
    CASE x.t = "none" -> FALSE
      [] x.t = "num" -> x.v # 0
      [] x.t = "str" -> x.s # ""
      [] OTHER -> TRUE

\* dict.get(k, def)
Get(d, k, def) == IF k \in DOMAIN d THEN d[k] ELSE def

\* the strings of the model that float() accepts, and their values
CadenasNumericas == {"7"}
FloatDeCadena(s) == 7 * Uno

\* "if not isinstance(x, (int, float)): try: x = float(x) except: x = 0"
AFloat(x) ==
    IF x.t = "num" THEN x.v
    ELSE IF x.t = "str" /\ x.s \in CadenasNumericas THEN FloatDeCadena(x.s)
    ELSE 0

RECURSIVE Concat(_)
Concat(ss) == IF ss = <<>> THEN <<>> ELSE Head(ss) \o Concat(Tail(ss))

Rango(s) == {s[i] : i \in DOMAIN s}

(***************************************************************************)
(* The field mapping of compare_with_facturas.                             *)
(***************************************************************************)
NO_ENCONTRADO == "No encontrado"
NO_ENCONTRADO_EN_DB == "No encontrado en DB"

\* mapeo_variables, in the order of the dict
mapeo_variables == <<
    <<"periodo_facturacion", "periodo facturacion">>,
    <<"factor_m", "factor_m">>,
    <<"codigo_sic", "frt">>,
    <<"subtotal_base_energia", "subtotal_energia_total">>,
    <<"contribucion", "contribucion">>,
    <<"contribucion_otros_meses", "contribucion_otros_meses">>,
    <<"subtotal_energia_contribucion_pesos", "subtotal_energia_contribucion_pesos">>,
    <<"otros_cobros", "otros_cobros">>,
    <<"sobretasa", "sobretasa">>,
    <<"ajustes_cargos_regulados", "ajustes_cargos_regulados">>,
    <<"compensaciones", "compensaciones">>,
    <<"saldo_cartera", "amortizacion">>,
    <<"interes_mora", "interes_por_mora">>,
    <<"recobros", "recobros">>,
    <<"alumbrado_publico", "alumbrado_publico_total">>,
    <<"impuesto_alumbrado_publico", "impuesto_alumbrado_publico">>,
    <<"ajuste_iap_otros_meses", "ajuste_iap_otros_meses">>,
    <<"convivencia_ciudadana", "covivencia_ciudadana">>,
    <<"tasa_especial_convivencia", "tasa_especial_convivencia_ciudadana">>,
    <<"ajuste_tasa_convivencia", "ajuste_tasa_convivencia_otros_meses">>,
    <<"total_servicio_energia_impuestos", "total_servicio_energia_impuestos">>,
    <<"ajuste_decena", "ajuste_decena">>,
    <<"neto_pagar", "neto_a_pagar">>,
    <<"energia_reactiva_inductiva", "energia_reactiva_inductiva_facturada">>,
    <<"energia_reactiva_capacitiva", "energia_reactiva_capacitiva_facturada">>,
    <<"total_energia_reactiva", "total_energia_reactiva">> >>

\* campos_a_comparar: the list used when the database gave nothing
campos_a_comparar == [i \in DOMAIN mapeo_variables |-> mapeo_variables[i][1]]

Campos == {mapeo_variables[i][1] : i \in DOMAIN mapeo_variables}

\* the three fields compared with the absolute tolerance
CamposReactiva ==
    {"energia_reactiva_inductiva", "energia_reactiva_capacitiva", "total_energia_reactiva"}

\* the column aliases of the SELECT list (both queries select the same aliases;
\* the alternative query also selects fechafacturacion)
ColumnasConsulta == {
    "frt", "factura", "subtotal_energia_total", "subtotal_energia_contribucion_pesos",
    "energia_activa", "energia_reactiva_inductiva_facturada", "total_energia_reactiva",
    "energia_reactiva_capacitiva_facturada", "generacion_mes_corriente",
    "restricciones_mes_corriente", "comercializacion_mes_corriente",
    "distribucion_mes_corriente", "otros_cargos_mes_corriente", "perdidas_mes_corriente",
    "transmision_mes_corriente", "energia_inductiva_capacitiva_facturada_mes_corriente",
    "subtotal_energia_mes_corriente", "generacion_ajustes_anteriores",
    "restricciones_ajustes_anteriores", "comercializacion_ajustes_anteriores",
    "distribucion_ajustes_anteriores", "otros_cargos_ajustes_anteriores",
    "perdidas_ajustes_anteriores", "transmision_ajustes_anteriores",
    "subtotal_energia_ajustes_anteriores",
    "energia_inductiva_capacitiva_facturada_ajustes_anteriores", "generacion_total",
    "alumbrado_publico_total", "restricciones_total", "comercializacion_total",
    "distribucion_total", "otros_cargos_total", "otros_cobros", "recobros",
    "perdidas_total", "transmision_total", "energia_inductiva_capacitiva_facturada_total",
    "contribucion", "compensaciones", "amortizacion", "impuesto_alumbrado_publico",
    "ajuste_iap_otros_meses", "tasa_especial_convivencia_ciudadana",
    "ajuste_tasa_convivencia_otros_meses", "sobretasa", "neto_a_pagar",
    "ajustes_cargos_regulados", "interes_por_mora", "total_servicio_energia_impuestos",
    "covivencia_ciudadana", "generacion_kwh_kvarh", "generacion_precio_kwh",
    "generacion_mes_corriente_pesos", "generacion_mes_anteriores_pesos",
    "generacion_total_pesos", "comercializacion_precio_kwh",
    "comercializacion_mes_corriente_pesos", "comercializacion_mes_anteriores_pesos",
    "comercializacion_total_pesos", "transmision_precio_kwh",
    "transmision_mes_corriente_pesos", "transmision_mes_anteriores_pesos",
    "transmision_total_pesos", "distribucion_precio_kwh",
    "distribucion_mes_corriente_pesos", "distribucion_mes_anteriores_pesos",
    "distribucion_total_pesos", "perdidas_precio_kwh", "perdidas_mes_corriente_pesos",
    "perdidas_mes_anteriores_pesos", "perdidas_total_pesos", "restricciones_precio_kwh",
    "restricciones_mes_corriente_pesos", "restricciones_mes_anteriores_pesos",
    "restricciones_total_pesos", "otros_cargos_precio_kwh",
    "otros_cargos_mes_corriente_pesos", "otros_cargos_mes_anteriores_pesos",
    "otros_cargos_total_pesos", "energia_inductiva_capacitiva_kwh_kvarh",
    "energia_inductiva_capacitiva_mes_corriente_pesos",
    "energia_inductiva_capacitiva_mes_anteriores_pesos",
    "energia_inductiva_capacitiva_total_pesos", "factor_m" }

\* the concepts of componentes_map and the prefix of their columns
GENERACION == "Generacion"
REACTIVA == "Energia inductiva + capacitiva"
PrefijoColumna == [c \in {"Generacion", "Transmision", "Distribucion", "Perdidas",
                          "Comercializacion", "Restricciones", "Otros cargos",
                          "Energia inductiva + capacitiva"} |->
    CASE c = "Generacion" -> "generacion"
      [] c = "Transmision" -> "transmision"
      [] c = "Distribucion" -> "distribucion"
      [] c = "Perdidas" -> "perdidas"
      [] c = "Comercializacion" -> "comercializacion"
      [] c = "Restricciones" -> "restricciones"
      [] c = "Otros cargos" -> "otros_cargos"
      [] OTHER -> "energia_inductiva_capacitiva"]

ConceptosMapeados == DOMAIN PrefijoColumna

\* the sub-fields of a component, in the order of the inner dicts
CamposDetalle == <<"kwh_kvarh", "precio_kwh", "mes_corriente", "mes_anteriores">>

\* componentes_map[concepto][campo]; None is "No aplica"
componentes_map(concepto, campo) ==
    CASE campo = "total" -> Str(PrefijoColumna[concepto] \o "_total_pesos")
      [] campo = "kwh_kvarh" ->
            IF concepto \in {GENERACION, REACTIVA}
            THEN Str(PrefijoColumna[concepto] \o "_kwh_kvarh") ELSE None
      [] campo = "precio_kwh" ->
            IF concepto = REACTIVA THEN Str("distribucion_precio_kwh")
            ELSE Str(PrefijoColumna[concepto] \o "_precio_kwh")
      [] campo = "mes_corriente" -> Str(PrefijoColumna[concepto] \o "_mes_corriente_pesos")
      [] OTHER -> Str(PrefijoColumna[concepto] \o "_mes_anteriores_pesos")

(***************************************************************************)
(* ComparisonRows (the dicts appended to comparaciones).                   *)
(***************************************************************************)
Fila(id, frontera, concepto, valor_factura, valor_db, diferencia, estado) ==
    [ID_Factura |-> id, Frontera |-> frontera, Concepto |-> concepto,
     Valor_Factura |-> valor_factura, Valor_Datalake |-> valor_db,
     Diferencia |-> diferencia, Estado |-> estado]

\* a percentage n/d
Pct(n, d) == [t |-> "pct", n |-> n, d |-> d]

\* "if codigo_sic and codigo_sic != 'No encontrado'"
FronteraValidaSinCentinela(codigo_sic) == Truthy(codigo_sic)
FronteraValida(codigo_sic) == Truthy(codigo_sic) /\ codigo_sic # Str(NO_ENCONTRADO)

\* fronteras: the codes handed to the query, in the order of the invoices
Fronteras(facturas_procesadas) ==
    LET validas == SelectSeq(facturas_procesadas, LAMBDA f :
                       FronteraValida(Get(f.datos_generales, "codigo_sic", Str(""))))
    IN [i \in DOMAIN validas |-> validas[i].datos_generales["codigo_sic"].s]

\* factura_db[col].values[0] if col in factura_db.columns else 0
Celda(fila, col) ==
    CASE col = "frt" -> Str(fila.frt)
      [] OTHER -> fila.val
ValorDB(columnas, fila, col) == IF col \in columnas THEN Celda(fila, col) ELSE Num(0)

\* the state of a reactive-energy field
EstadoReactivaMayorIgual(diferencia) ==
    IF diferencia >= TOL_REACTIVA THEN "Alerta" ELSE "OK"
EstadoReactiva(diferencia) == IF diferencia > TOL_REACTIVA THEN "Alerta" ELSE "OK"

\* the difference and state of any other general field when the database has 0
SinBaseSiempreOK(valor_factura) == <<Pct(0, 1), "OK">>
SinBase(valor_factura) ==
    IF valor_factura = 0 THEN <<Pct(0, 1), "OK">>
    ELSE <<Pct(DIFERENCIA_SIN_BASE, 1), "Alerta">>

\* the percentage difference and its state, valor_db # 0
PorcentajeEstricto(valor_factura, valor_db) ==
    LET n == Abs(valor_factura - valor_db) * 100
        d == Abs(valor_db)
    IN <<Pct(n, d), IF n > UMBRAL_PORCENTAJE * d THEN "Alerta" ELSE "OK">>
Porcentaje(valor_factura, valor_db) ==
    LET n == Abs(valor_factura - valor_db) * 100
        d == Abs(valor_db)
    IN <<Pct(n, d), IF n >= UMBRAL_PORCENTAJE * d THEN "Alerta" ELSE "OK">>

\* one general field of an invoice against the row of its frontier
CompararVariable(factura, codigo_sic, columnas, fila, var_factura, var_db) ==
    LET valor_factura == AFloat(Get(factura.datos_generales, var_factura, Num(0)))
        valor_db == AFloat(ValorDB(columnas, fila, var_db))
        res == IF var_factura \in CamposReactiva
               THEN <<Num(Abs(valor_factura - valor_db)),
                      EstadoReactiva(Abs(valor_factura - valor_db))>>
               ELSE IF valor_db = 0 THEN SinBase(valor_factura)
               ELSE Porcentaje(valor_factura, valor_db)
    IN Fila(Get(factura, "id", Str("")), codigo_sic, var_factura,
            Num(valor_factura), Num(valor_db), res[1], res[2])

\* the state of a component total or sub-field
EstadoComponenteEstricto(diferencia) ==
    IF Abs(diferencia) < TOL_COMPONENTE THEN "OK" ELSE "Alerta"
EstadoComponente(diferencia) ==
    IF Abs(diferencia) <= TOL_COMPONENTE THEN "OK" ELSE "Alerta"

\* "if valor_factura == 'N/A': valor_factura = 0"
SinNA(valor) == IF valor = Str("N/A") THEN Num(0) ELSE valor

\* one field (total or sub-field) of a component against the row of its frontier
CompararCampoComponente(factura, codigo_sic, columnas, fila, componente, campo, nombre) ==
    LET valor_factura == AFloat(SinNA(Get(componente, campo, Num(0))))
        valor_db == AFloat(ValorDB(columnas, fila, componentes_map(componente.concepto, campo).s))
        diferencia == valor_factura - valor_db
    IN Fila(Get(factura, "id", Str("")), codigo_sic, nombre,
            Num(valor_factura), Num(valor_db), Num(diferencia), EstadoComponente(diferencia))

\* a component: its total, then the sub-fields that have a column
CompararComponente(factura, codigo_sic, columnas, fila, componente) ==
    IF componente.concepto \notin ConceptosMapeados THEN <<>>
    ELSE LET con_columna == SelectSeq(CamposDetalle, LAMBDA campo :
                                componentes_map(componente.concepto, campo) # None)
         IN <<CompararCampoComponente(factura, codigo_sic, columnas, fila, componente,
                                      "total", componente.concepto)>>
            \o [i \in DOMAIN con_columna |->
                   CompararCampoComponente(factura, codigo_sic, columnas, fila, componente,
                       con_columna[i], componente.concepto \o "_" \o con_columna[i])]

\* a row without database value
FilaVacia(factura, codigo_sic, concepto, valor_factura) ==
    Fila(Get(factura, "id", Str("")), codigo_sic, concepto, valor_factura,
         None, None, NO_ENCONTRADO_EN_DB)

\* the rows of a component without database value: total and the four sub-fields
ComponenteVacio(factura, codigo_sic, componente) ==
    <<FilaVacia(factura, codigo_sic, componente.concepto, Get(componente, "total", Num(0)))>>
    \o [i \in DOMAIN CamposDetalle |->
           FilaVacia(factura, codigo_sic, componente.concepto \o "_" \o CamposDetalle[i],
                     SinNA(Get(componente, CamposDetalle[i], Num(0))))]

\* the rows of an invoice whose frontier is not among the fetched rows
FilasFronteraAusente(factura, codigo_sic) ==
    [i \in DOMAIN mapeo_variables |->
        FilaVacia(factura, codigo_sic, mapeo_variables[i][1],
                  Get(factura.datos_generales, mapeo_variables[i][1], Num(0)))]
    \o Concat([j \in DOMAIN factura.componentes |->
                  ComponenteVacio(factura, codigo_sic, factura.componentes[j])])

\* the rows of an invoice when the database gave nothing (None or empty)
FilasSinDatosDescartadas(factura, codigo_sic) == <<>>
FilasSinDatos(factura, codigo_sic) ==
    [i \in DOMAIN campos_a_comparar |->
        FilaVacia(factura, codigo_sic, campos_a_comparar[i],
                  Get(factura.datos_generales, campos_a_comparar[i], Num(0)))]
    \o Concat([j \in DOMAIN factura.componentes |->
                  ComponenteVacio(factura, codigo_sic, factura.componentes[j])])

\* the rows of one invoice against the fetched rows
FilasDeFactura(factura, db_data) ==
    LET codigo == Get(factura.datos_generales, "codigo_sic", Str(""))
        factura_db == SelectSeq(db_data.filas, LAMBDA r : Str(r.frt) = codigo)
    IN IF ~FronteraValida(codigo) THEN <<>>
       ELSE IF factura_db = <<>> THEN FilasFronteraAusente(factura, codigo.s)
       ELSE [i \in DOMAIN mapeo_variables |->
                CompararVariable(factura, codigo.s, db_data.columnas, factura_db[1],
                                 mapeo_variables[i][1], mapeo_variables[i][2])]
            \o Concat([j \in DOMAIN factura.componentes |->
                          CompararComponente(factura, codigo.s, db_data.columnas,
                                             factura_db[1], factura.componentes[j])])

\* the DataFrame compare_with_facturas returns once the fetch has answered;
\* db_data is None or a DataFrame
Comparaciones(facturas_procesadas, db_data) ==
    IF db_data.t = "none" \/ db_data.filas = <<>>
    THEN Concat([i \in DOMAIN facturas_procesadas |->
            LET codigo == Get(facturas_procesadas[i].datos_generales, "codigo_sic", Str(""))
            IN IF ~FronteraValida(codigo) THEN <<>>
               ELSE FilasSinDatos(facturas_procesadas[i], codigo.s)])
    ELSE Concat([i \in DOMAIN facturas_procesadas |->
            FilasDeFactura(facturas_procesadas[i], db_data)])

(***************************************************************************)
(* Dates <<year, month, day>> and extract_date_range_from_facturas.        *)
(***************************************************************************)
Bisiesto(y) == (y % 4 = 0 /\ y % 100 # 0) \/ y % 400 = 0

\* calendar.monthrange(y, m)[1]
DiasDelMes(y, m) ==
    CASE m \in {4, 6, 9, 11} -> 30
      [] m = 2 -> IF Bisiesto(y) THEN 29 ELSE 28
      [] OTHER -> 31

\* datetime.strptime(s, '%Y-%m-%d') succeeds
FechaValida(f) ==
    /\ f # SinFecha
    /\ f[2] \in 1..12
    /\ f[3] \in 1..DiasDelMes(f[1], f[2])

FechaMenorIgual(a, b) ==
    \/ a[1] < b[1]
    \/ a[1] = b[1] /\ a[2] < b[2]
    \/ a[1] = b[1] /\ a[2] = b[2] /\ a[3] <= b[3]

PrimerDiaDelMes(f) == <<f[1], f[2], 1>>
UltimoDiaDelMes(f) == <<f[1], f[2], DiasDelMes(f[1], f[2])>>

\* min() and max() of a non-empty sequence of dates
MinFecha(fs) == CHOOSE f \in Rango(fs) : \A g \in Rango(fs) : FechaMenorIgual(f, g)
MaxFecha(fs) == CHOOSE f \in Rango(fs) : \A g \in Rango(fs) : FechaMenorIgual(g, f)

\* the (inicio, fin) pair of a billing period: a string without ' a ' is taken
\* whole as inicio; a string that is no date does not parse
InicioDePeriodo(p) == IF p.t = "periodo" THEN p.inicio ELSE SinFecha
FinDePeriodo(p) == IF p.t = "periodo" THEN p.fin ELSE SinFecha
TieneFin(p) == p.t = "periodo" /\ p.fin # SinFecha

\* the current month, used when no period is usable
MesActual(fecha_hoy) == <<PrimerDiaDelMes(fecha_hoy), UltimoDiaDelMes(fecha_hoy)>>

extract_date_range_from_facturas(facturas_procesadas, fecha_hoy) ==
    LET con_periodo == SelectSeq(facturas_procesadas, LAMBDA f :
            LET p == Get(f.datos_generales, "periodo_facturacion", None)
            IN Truthy(p) /\ p # Str(NO_ENCONTRADO))
        periodos_facturacion ==
            [i \in DOMAIN con_periodo |-> con_periodo[i].datos_generales["periodo_facturacion"]]
        \* strptime(inicio) succeeded: fecha_inicio is appended
        con_inicio == SelectSeq(periodos_facturacion, LAMBDA p :
                          FechaValida(InicioDePeriodo(p)))
        \* and the end parsed too, or there is none: fecha_fin is appended
        con_fin == SelectSeq(con_inicio, LAMBDA p :
                          TieneFin(p) => FechaValida(FinDePeriodo(p)))
        fechas_inicio == [i \in DOMAIN con_inicio |-> InicioDePeriodo(con_inicio[i])]
        fechas_fin == [i \in DOMAIN con_fin |->
                          IF TieneFin(con_fin[i]) THEN FinDePeriodo(con_fin[i])
                          ELSE UltimoDiaDelMes(InicioDePeriodo(con_fin[i]))]
    IN IF periodos_facturacion = <<>> THEN MesActual(fecha_hoy)
       ELSE IF fechas_inicio = <<>> \/ fechas_fin = <<>> THEN MesActual(fecha_hoy)
       ELSE <<PrimerDiaDelMes(MinFecha(fechas_inicio)), UltimoDiaDelMes(MaxFecha(fechas_fin))>>

(***************************************************************************)
(* The two queries of get_factura_data_from_db over the table              *)
(* reporte_liquidacion_frts (its rows with factura_dian not null, in the   *)
(* order the server returns them).                                         *)
(***************************************************************************)
Lista(l) == [t |-> "list", l |-> l]
DataFrame(columnas, filas) == [t |-> "df", columnas |-> columnas, filas |-> filas]

\* "fronteras and len(fronteras) > 0"
HayFronteras(fronteras) == fronteras.t = "list" /\ Len(fronteras.l) > 0

\* WHERE fechafacturacion BETWEEN %s AND %s [AND frontera IN (...)]
ConsultaPrincipal(tabla, fecha_inicio, fecha_fin, fronteras) ==
    SelectSeq(tabla, LAMBDA r :
        /\ FechaMenorIgual(fecha_inicio, r.fechafacturacion)
        /\ FechaMenorIgual(r.fechafacturacion, fecha_fin)
        /\ (HayFronteras(fronteras) => r.frt \in Rango(fronteras.l)))

\* ORDER BY fechafacturacion DESC
RECURSIVE Insertar(_, _)
Insertar(r, filas) ==
    IF filas = <<>> THEN <<r>>
    ELSE IF FechaMenorIgual(r.fechafacturacion, Head(filas).fechafacturacion)
         THEN <<Head(filas)>> \o Insertar(r, Tail(filas))
         ELSE <<r>> \o filas
RECURSIVE OrdenarDesc(_)
OrdenarDesc(filas) ==
    IF filas = <<>> THEN <<>>
    ELSE Insertar(filas[Len(filas)], OrdenarDesc(SubSeq(filas, 1, Len(filas) - 1)))

\* WHERE frontera IN (...) ORDER BY fechafacturacion DESC
ConsultaAlternativa(tabla, fronteras) ==
    OrdenarDesc(SelectSeq(tabla, LAMBDA r : r.frt \in Rango(fronteras.l)))

\* "if not results and fronteras and len(fronteras) > 0"
IntentaAlternativaSiempre(results, fronteras) == HayFronteras(fronteras)
IntentaAlternativa(results, fronteras) == results = <<>> /\ HayFronteras(fronteras)

(***************************************************************************)
(* FacturaProcessor (src/procesamiento.py): raw strings are sequences of   *)
(* characters, numbers are Entero(n) (int) and Flotante(n, k) (the float   *)
(* n / 10^k, without trailing zeros in n).                                 *)
(***************************************************************************)
\* length of the raw strings of the model
MaxCadena == 3
\* constructions of a FacturaProcessor over the same data
MaxPasadas == 2
\* lines of a document besides its eight rows
MaxLineas == 2
\* calls of agregar_factura on one exporter
MaxFacturas == 3
\* text fragments and other objects on one page
MaxElementos == 2

Cadena(cs) == [t |-> "chars", c |-> cs]
Entero(n) == [t |-> "int", v |-> n]
RECURSIVE Flotante(_, _)
Flotante(n, k) ==
    IF k > 0 /\ n % 10 = 0 THEN Flotante(n \div 10, k - 1)
    ELSE [t |-> "float", v |-> n, k |-> k]
EsNumero(x) == x.t \in {"int", "float"}

DIGITOS == <<"0", "1", "2", "3", "4", "5", "6", "7", "8", "9">>
Digitos == Rango(DIGITOS)
ValorDigito(c) == (CHOOSE i \in DOMAIN DIGITOS : DIGITOS[i] = c) - 1
RECURSIVE Pot10(_)
Pot10(k) == IF k = 0 THEN 1 ELSE 10 * Pot10(k - 1)
\* the value of a run of digits
RECURSIVE ValorDigitos(_)
ValorDigitos(cs) ==
    IF cs = <<>> THEN 0
    ELSE 10 * ValorDigitos(SubSeq(cs, 1, Len(cs) - 1)) + ValorDigito(cs[Len(cs)])
SoloDigitos(cs) == \A i \in DOMAIN cs : cs[i] \in Digitos

\* str.replace(ch, '')
Quitar(cs, ch) == SelectSeq(cs, LAMBDA c : c # ch)
\* str.startswith('-') and value[1:]
EmpiezaConMenos(cs) == cs # <<>> /\ cs[1] = "-"
SinPrimero(cs) == SubSeq(cs, 2, Len(cs))

\* int(cs): an optional sign and at least one digit; float(cs) for a string
\* holding '.': an optional sign, digits, one point, digits, with a digit
\* somewhere.  Both give None for the strings on which Python raises ValueError.
SinSigno(cs) == IF EmpiezaConMenos(cs) THEN SinPrimero(cs) ELSE cs
int(cs) ==
    LET ds == SinSigno(cs)
    IN IF ds # <<>> /\ SoloDigitos(ds)
       THEN Entero(IF EmpiezaConMenos(cs) THEN -ValorDigitos(ds) ELSE ValorDigitos(ds))
       ELSE None
float(cs) ==
    LET ds == SinSigno(cs)
        puntos == {i \in DOMAIN ds : ds[i] = "."}
    IN IF Cardinality(puntos) = 1 /\ Len(ds) > 1 /\ SoloDigitos(Quitar(ds, "."))
       THEN LET p == CHOOSE i \in puntos : TRUE
                n == ValorDigitos(Quitar(ds, "."))
            IN Flotante(IF EmpiezaConMenos(cs) THEN -n ELSE n, Len(ds) - p)
       ELSE None

\* -value
Negado(x) == [x EXCEPT !.v = -@]

\* FacturaProcessor._limpiar_valor: the conversion of a string, which keeps
\* the stripped text where int() or float() raise ValueError
ConvertirCadena(cs) ==
    LET sin_comas == Quitar(Quitar(cs, ","), "\"")
        es_negativo == EmpiezaConMenos(sin_comas)
        texto == IF es_negativo THEN SinPrimero(sin_comas) ELSE sin_comas
        numero == IF "." \in Rango(texto) THEN float(texto) ELSE int(texto)
    IN IF numero = None THEN Cadena(texto)
       ELSE IF es_negativo THEN Negado(numero) ELSE numero
limpiar_valor_negando(value) ==
    IF value = Str(NO_ENCONTRADO) THEN Entero(0)
    ELSE IF EsNumero(value) THEN Negado(value)
    ELSE IF value.t # "chars" THEN value
    ELSE ConvertirCadena(value.c)
limpiar_valor(value) ==
    IF value = Str(NO_ENCONTRADO) THEN Entero(0)
    ELSE IF value.t # "chars" THEN value
    ELSE ConvertirCadena(value.c)

\* FacturaProcessor._limpiar_datos_generales
campos_no_numericos ==
    {"fecha_vencimiento", "periodo_facturacion", "codigo_sic", "numero_factura"}
limpiar_datos_generales(datos_generales) ==
    [key \in DOMAIN datos_generales |->
        IF key \in campos_no_numericos THEN datos_generales[key]
        ELSE limpiar_valor(datos_generales[key])]

\* FacturaProcessor._limpiar_datos_componentes
limpiar_datos_componentes(datos_componentes) ==
    [i \in DOMAIN datos_componentes |->
        [key \in DOMAIN datos_componentes[i] |->
            LET value == datos_componentes[i][key]
            IN IF key # "concepto" /\ value # Str("N/A") THEN limpiar_valor(value)
               ELSE value]]

\* FacturaProcessor._asegurar_numero
asegurar_numero(valor) ==
    IF EsNumero(valor) THEN valor
    ELSE IF valor.t = "chars"
    THEN LET valor_limpio == Quitar(Quitar(valor.c, ","), "\"")
             es_negativo == EmpiezaConMenos(valor_limpio)
             texto == IF es_negativo THEN SinPrimero(valor_limpio) ELSE valor_limpio
             resultado == IF "." \in Rango(texto) THEN float(texto) ELSE int(texto)
         IN IF resultado = None THEN Entero(0)
            ELSE IF es_negativo THEN Negado(resultado) ELSE resultado
    ELSE Entero(0)

\* a + b, a - b and abs(x) > 1 over int and float
Decimales(x) == IF x.t = "float" THEN x.k ELSE 0
Mas(a, b) ==
    LET k == IF Decimales(a) > Decimales(b) THEN Decimales(a) ELSE Decimales(b)
        n == a.v * Pot10(k - Decimales(a)) + b.v * Pot10(k - Decimales(b))
    IN IF a.t = "int" /\ b.t = "int" THEN Entero(n) ELSE Flotante(n, k)
Menos(a, b) == Mas(a, Negado(b))
AbsMayorQueUno(x) == Abs(x.v) > Pot10(Decimales(x))

\* FacturaProcessor.calcular_totales
RECURSIVE SumaTotales(_)
SumaTotales(datos_componentes) ==
    IF datos_componentes = <<>> THEN Entero(0)
    ELSE LET n == Len(datos_componentes)
             componente == datos_componentes[n]
             resto == SumaTotales(SubSeq(datos_componentes, 1, n - 1))
         IN IF componente["concepto"] # REACTIVA
            THEN Mas(resto, asegurar_numero(Get(componente, "total", Entero(0))))
            ELSE resto
calcular_totales(datos_generales, datos_componentes) ==
    LET subtotal_energia == SumaTotales(datos_componentes)
        subtotal_reportado ==
            asegurar_numero(Get(datos_generales, "subtotal_base_energia", Entero(0)))
    IN [subtotal_energia_calculado |-> subtotal_energia,
        subtotal_energia_reportado |-> subtotal_reportado,
        diferencia_subtotal |-> Menos(subtotal_energia, subtotal_reportado),
        neto_pagar_reportado |->
            asegurar_numero(Get(datos_generales, "neto_pagar", Entero(0)))]

\* FacturaProcessor.validar_factura.  value in [0, "No encontrado", None, ""]:
VacioONulo(value) ==
    \/ value \in {None, Str(NO_ENCONTRADO), Str(""), Cadena(<<>>)}
    \/ (EsNumero(value) /\ value.v = 0)
campos_requeridos == <<"fecha_vencimiento", "periodo_facturacion", "neto_pagar">>
ErrorRequerido(campo) == <<"Campo requerido no encontrado", campo>>
ERROR_COMPONENTES == <<"No se encontraron componentes de energia">>
ERROR_FECHA == <<"Formato de fecha de vencimiento invalido">>
ADVERTENCIA_SUBTOTAL == <<"Diferencia en subtotal de energia">>

EsCadena(value) == value.t \in {"str", "chars", "periodo"}
\* datetime.strptime(value, "%Y-%m-%d") returns a date
strptime_ok(value) ==
    value.t = "periodo" /\ value.fin = SinFecha /\ FechaValida(value.inicio)

ValidacionInicial ==
    [t |-> "validacion", errores |-> <<>>, advertencias |-> <<>>, es_valida |-> TRUE]
\* validacion["errores"].append(error); validacion["es_valida"] = False
AgregarError(validacion, error) ==
    [validacion EXCEPT !.errores = Append(@, error), !.es_valida = FALSE]
\* validacion["advertencias"].append(advertencia)
AgregarAdvertenciaInvalidante(validacion, advertencia) ==
    [validacion EXCEPT !.advertencias = Append(@, advertencia), !.es_valida = FALSE]
AgregarAdvertencia(validacion, advertencia) ==
    [validacion EXCEPT !.advertencias = Append(@, advertencia)]

\* the loop over campos_requeridos, from its i-th field on
RECURSIVE ValidarRequeridos(_, _, _)
ValidarRequeridos(validacion, datos_generales, i) ==
    IF i > Len(campos_requeridos) THEN validacion
    ELSE LET campo == campos_requeridos[i]
         IN ValidarRequeridos(
                IF VacioONulo(Get(datos_generales, campo, None))
                THEN AgregarError(validacion, ErrorRequerido(campo))
                ELSE validacion,
                datos_generales, i + 1)

\* if not self.datos_componentes
ValidarComponentesSinError(validacion, datos_componentes) == validacion
ValidarComponentes(validacion, datos_componentes) ==
    IF datos_componentes = <<>> THEN AgregarError(validacion, ERROR_COMPONENTES)
    ELSE validacion

\* if abs(totales["diferencia_subtotal"]) > 1
ValidarTotales(validacion, datos_generales, datos_componentes) ==
    LET totales == calcular_totales(datos_generales, datos_componentes)
    IN IF AbsMayorQueUno(totales.diferencia_subtotal)
       THEN AgregarAdvertencia(validacion, ADVERTENCIA_SUBTOTAL)
       ELSE validacion

\* the check of fecha_vencimiento: the result is Excepcion where the code
\* raises, KeyError on a missing fecha_vencimiento and TypeError when strptime
\* is handed a value that is no string
ValidarFechas(validacion, datos_generales) ==
    IF "fecha_vencimiento" \notin DOMAIN datos_generales THEN [t |-> "excepcion"]
    ELSE LET fecha_vencimiento == datos_generales["fecha_vencimiento"]
         IN IF fecha_vencimiento = Str(NO_ENCONTRADO) THEN validacion
            ELSE IF ~EsCadena(fecha_vencimiento) THEN [t |-> "excepcion"]
            ELSE IF strptime_ok(fecha_vencimiento) THEN validacion
            ELSE AgregarError(validacion, ERROR_FECHA)

validar_factura(datos_generales, datos_componentes) ==
    ValidarFechas(
        ValidarTotales(
            ValidarComponentes(
                ValidarRequeridos(ValidacionInicial, datos_generales, 1),
                datos_componentes),
            datos_generales, datos_componentes),
        datos_generales)

\* FacturaProcessor.obtener_datos_procesados
obtener_datos_procesados(datos_generales, datos_componentes) ==
    LET validacion == validar_factura(datos_generales, datos_componentes)
    IN IF validacion.t = "excepcion" THEN validacion
       ELSE [t |-> "resultado",
             datos_generales |-> datos_generales,
             componentes |-> datos_componentes,
             totales_calculados |-> calcular_totales(datos_generales, datos_componentes),
             validacion |-> validacion]

(***************************************************************************)
(* extraer_datos_factura (src/extractores.py).  The text of the document   *)
(* is modelled by what the patterns of each variable capture in it.        *)
(***************************************************************************)
NoCoincide == [t |-> "nomatch"]
CALCULADO == "subtotal_energia_contribucion_pesos"

\* the value of one variable: the sentinel, or the capture without a leading comma
ValorCapturado(captura) ==
    IF captura = NoCoincide THEN Str(NO_ENCONTRADO)
    ELSE Cadena(IF captura.c # <<>> /\ captura.c[1] = "," THEN SinPrimero(captura.c)
                ELSE captura.c)

\* f"{n:,}"
RECURSIVE CifrasDe(_)
CifrasDe(n) ==
    IF n < 10 THEN <<DIGITOS[n + 1]>>
    ELSE Append(CifrasDe(n \div 10), DIGITOS[(n % 10) + 1])
RECURSIVE ConComas(_)
ConComas(cifras) ==
    IF Len(cifras) <= 3 THEN cifras
    ELSE ConComas(SubSeq(cifras, 1, Len(cifras) - 3)) \o <<",">>
             \o SubSeq(cifras, Len(cifras) - 2, Len(cifras))
FormatoMiles(n) ==
    IF n < 0 THEN <<"-">> \o ConComas(CifrasDe(-n)) ELSE ConComas(CifrasDe(n))

\* int(value.replace(',', '')) if value != "No encontrado" else 0; None where
\* int() raises ValueError
EnteroSinComas(value) ==
    IF value = Str(NO_ENCONTRADO) THEN Entero(0) ELSE int(Quitar(value.c, ","))

extraer_datos_factura_sin_calculo(content) ==
    [var_name \in DOMAIN content |-> ValorCapturado(content[var_name])]
extraer_datos_factura(content) ==
    LET results == [var_name \in DOMAIN content \ {CALCULADO} |->
                        ValorCapturado(content[var_name])]
        subtotal_base == EnteroSinComas(results["subtotal_base_energia"])
        contribucion == EnteroSinComas(results["contribucion"])
        calculado == IF subtotal_base = None \/ contribucion = None
                     THEN Str(NO_ENCONTRADO)
                     ELSE Cadena(FormatoMiles(subtotal_base.v + contribucion.v))
    IN [var_name \in DOMAIN results \cup {CALCULADO} |->
            IF var_name = CALCULADO THEN calculado ELSE results[var_name]]

(***************************************************************************)
(* The component table: extraer_tabla_componentes of                       *)
(* src/extractores_componentes.py and of src/extractores.py.  A line of    *)
(* the document is its concept, the groups the concept's pattern captures  *)
(* in it (SinGrupos when it does not match) and the parts the quote-aware  *)
(* split finds after the label.                                            *)
(***************************************************************************)
NOMBRES_CONCEPTOS ==
    <<GENERACION, "Comercializacion", "Transmision", "Distribucion", "Perdidas",
      "Restricciones", "Otros cargos", REACTIVA>>
ConCantidad == {GENERACION, REACTIVA}
SinGrupos == <<>>
Linea(concepto, grupos, partes) ==
    [concepto |-> concepto, grupos |-> grupos, partes |-> partes]
CERO == Cadena(<<"0">>)

\* extractores_componentes.limpiar_valor
TerminaEnPuntoCero(cs) ==
    Len(cs) >= 2 /\ cs[Len(cs) - 1] = "." /\ cs[Len(cs)] = "0"
limpiar_valor_componente(valor, es_decimal) ==
    IF valor = None \/ valor.c = <<>> THEN CERO
    ELSE LET sin_comillas == Quitar(valor.c, "\"")
         IN IF sin_comillas = <<>> \/ sin_comillas = <<"-">> THEN CERO
            ELSE Cadena(Quitar(IF ~es_decimal /\ TerminaEnPuntoCero(sin_comillas)
                               THEN SubSeq(sin_comillas, 1, Len(sin_comillas) - 2)
                               ELSE sin_comillas, ","))

\* extraer_energia_valores: one of the two standalone quantities
EnergiaValor(captura) ==
    limpiar_valor_componente(IF captura = NoCoincide THEN CERO ELSE captura, FALSE)

\* "-" + value[1:].replace('-', '') for a value that starts with '-'
UnSoloSigno(value) ==
    IF EmpiezaConMenos(value.c) THEN Cadena(<<"-">> \o Quitar(SinPrimero(value.c), "-"))
    ELSE value

ComponenteExtraido(concepto, kwh_kvarh, precio_kwh, mes_corriente, mes_anteriores, total) ==
    [concepto |-> concepto, kwh_kvarh |-> kwh_kvarh, precio_kwh |-> precio_kwh,
     mes_corriente |-> mes_corriente, mes_anteriores |-> mes_anteriores,
     total |-> total]

\* procesar_componente_generacion and procesar_componente_energia_inductiva,
\* which differ in the name of the concept only; energia is the standalone
\* quantity handed to them
ProcesarConCantidad(nombre, grupos, es_formato_nuevo, energia) ==
    LET n == Len(grupos)
        kwh_kvarh ==
            IF energia # None THEN energia
            ELSE IF es_formato_nuevo /\ n = 4 THEN Str("N/A")
            ELSE IF n >= 5 THEN limpiar_valor_componente(grupos[1], FALSE)
            ELSE Str("N/A")
        d == IF es_formato_nuevo /\ n = 4 THEN 0 ELSE IF n >= 5 THEN 1 ELSE 0
    IN ComponenteExtraido(nombre, kwh_kvarh,
                          limpiar_valor_componente(grupos[d + 1], TRUE),
                          limpiar_valor_componente(grupos[d + 2], FALSE),
                          limpiar_valor_componente(grupos[d + 3], FALSE),
                          limpiar_valor_componente(grupos[d + 4], FALSE))
procesar_componente_standard(grupos, nombre_componente) ==
    ComponenteExtraido(nombre_componente, Str("N/A"),
                       limpiar_valor_componente(grupos[1], TRUE),
                       limpiar_valor_componente(grupos[2], FALSE),
                       UnSoloSigno(limpiar_valor_componente(grupos[3], FALSE)),
                       UnSoloSigno(limpiar_valor_componente(grupos[4], FALSE)))

\* the index of the first line of the concept that satisfies Ok, 0 without one
PrimeraLinea(lineas, nombre, Ok(_)) ==
    LET I == {i \in DOMAIN lineas : lineas[i].concepto = nombre /\ Ok(lineas[i])}
    IN IF I = {} THEN 0 ELSE CHOOSE i \in I : \A j \in I : i <= j

\* the loop over COMPONENTES_ENERGIA of extractores_componentes
CoincidePatron(linea) == linea.grupos # SinGrupos
PorPatrones(content) ==
    LET energia_activa == EnergiaValor(content.energia_activa)
        energia_reactiva_total == EnergiaValor(content.energia_reactiva_total)
        hallados == SelectSeq(NOMBRES_CONCEPTOS,
                        LAMBDA nombre : PrimeraLinea(content.lineas, nombre, CoincidePatron) > 0)
    IN [k \in DOMAIN hallados |->
           LET nombre == hallados[k]
               grupos == content.lineas[PrimeraLinea(content.lineas, nombre,
                                                     CoincidePatron)].grupos
           IN IF nombre = GENERACION
              THEN ProcesarConCantidad(nombre, grupos, content.es_formato_nuevo, energia_activa)
              ELSE IF nombre = REACTIVA
              THEN ProcesarConCantidad(nombre, grupos, content.es_formato_nuevo,
                                       energia_reactiva_total)
              ELSE procesar_componente_standard(grupos, nombre)]

\* procesar_linea_componente; parts[0] is the label, so len(parts) = Len(partes) + 1
procesar_linea_componente(partes, component_name, es_formato_nuevo, energia) ==
    IF Len(partes) + 1 < 4 THEN None
    ELSE LET con_cantidad == Len(partes) + 1 >= 5 /\ ~es_formato_nuevo
             kwh_kvarh ==
                 IF component_name \notin ConCantidad THEN Str("N/A")
                 ELSE IF energia # None THEN energia
                 ELSE IF con_cantidad THEN limpiar_valor_componente(partes[1], FALSE)
                 ELSE Str("N/A")
             d == IF con_cantidad /\ component_name \in ConCantidad THEN 1 ELSE 0
         IN ComponenteExtraido(component_name, kwh_kvarh,
                limpiar_valor_componente(partes[d + 1], TRUE),
                limpiar_valor_componente(partes[d + 2], FALSE),
                limpiar_valor_componente(partes[d + 3], FALSE),
                limpiar_valor_componente(IF Len(partes) >= d + 4 THEN partes[d + 4]
                                         ELSE CERO, FALSE))

\* extraer_componentes_linea_por_linea, from the i-th line on
Conceptos(concepto_data) == {concepto_data[k].concepto : k \in DOMAIN concepto_data}
YaEncontrado(concepto_data, component_name) ==
    component_name \in Conceptos(concepto_data)
RECURSIVE LineaPorLinea(_, _, _)
LineaPorLinea(content, i, concepto_data) ==
    IF i > Len(content.lineas) THEN concepto_data
    ELSE LET linea == content.lineas[i]
             energia == IF linea.concepto = GENERACION
                        THEN EnergiaValor(content.energia_activa)
                        ELSE EnergiaValor(content.energia_reactiva_total)
             concepto == procesar_linea_componente(linea.partes, linea.concepto,
                                                   content.es_formato_nuevo, energia)
         IN LineaPorLinea(content, i + 1,
                IF ~YaEncontrado(concepto_data, linea.concepto) /\ concepto # None
                THEN Append(concepto_data, concepto) ELSE concepto_data)

\* extraer_tabla_componentes of src/extractores.py.  value.replace(',', '')
\* .replace('"', '') if value else "0"
SinComasNiComillas(value) ==
    IF value = None \/ value.c = <<>> THEN CERO
    ELSE Cadena(Quitar(Quitar(value.c, ","), "\""))
\* "-" + value.replace('-', '') for a value that starts with '-'
SignoDelante(value) ==
    IF EmpiezaConMenos(value.c) THEN Cadena(<<"-">> \o Quitar(value.c, "-")) ELSE value
\* the dictionary built from the groups of a match of the table or of the
\* alternative patterns
DeGrupos(nombre, grupos) ==
    LET d == IF nombre \in ConCantidad THEN 1 ELSE 0
    IN ComponenteExtraido(nombre,
           IF d = 1 THEN SinComasNiComillas(grupos[1]) ELSE Str("N/A"),
           SinComasNiComillas(grupos[d + 1]), SinComasNiComillas(grupos[d + 2]),
           SignoDelante(SinComasNiComillas(grupos[d + 3])),
           SignoDelante(SinComasNiComillas(grupos[d + 4])))
\* the pattern of a concept with a quantity has five groups, the others four
CoincideTabla(linea) ==
    /\ linea.grupos # SinGrupos
    /\ linea.concepto \in ConCantidad => Len(linea.grupos) = 5
\* the table patterns when the table is found, else the alternative patterns
PorTabla(content) ==
    LET hallados == SelectSeq(NOMBRES_CONCEPTOS,
                        LAMBDA nombre : PrimeraLinea(content.lineas, nombre, CoincideTabla) > 0)
        de_tabla == [k \in DOMAIN hallados |->
                        DeGrupos(hallados[k],
                                 content.lineas[PrimeraLinea(content.lineas, hallados[k],
                                                             CoincideTabla)].grupos)]
        alternativos == SelectSeq(NOMBRES_CONCEPTOS,
                                  LAMBDA nombre : nombre \in DOMAIN content.alternativos)
    IN IF content.tabla /\ de_tabla # <<>> THEN de_tabla
       ELSE [k \in DOMAIN alternativos |->
                DeGrupos(alternativos[k], content.alternativos[alternativos[k]])]

\* the reactive row: energia_pattern over the whole text replaces or appends
\* the row, the filter drops every reactive row, and the first line with
\* '8.', 'inductiva' and 'capacitiva' that has six parts appends its own
EsReactivaConSeisPartes(linea) == Len(linea.partes) >= 5
RecuperarReactivaDe(content, concepto_data) ==
    LET sin_reactiva == SelectSeq(concepto_data, LAMBDA c : c.concepto # REACTIVA)
        i == PrimeraLinea(content.lineas, REACTIVA, EsReactivaConSeisPartes)
        partes == content.lineas[i].partes
    IN IF i = 0 THEN sin_reactiva
       ELSE Append(sin_reactiva,
                ComponenteExtraido(REACTIVA,
                    IF partes[1].c = <<>> THEN CERO ELSE Cadena(Quitar(partes[1].c, "\"")),
                    IF partes[2].c = <<>> THEN CERO ELSE Cadena(Quitar(partes[2].c, "\"")),
                    SinComasNiComillas(partes[3]), SinComasNiComillas(partes[4]),
                    SinComasNiComillas(partes[5])))

(***************************************************************************)
(* State.                                                                  *)
(***************************************************************************)
VARIABLES
    entrada,      \* the function the run calls: "lote", "comparar", "consulta",
                  \* "directorio", "factura", "procesar" or an extractor
    hoy,          \* date.today()
    directorio,   \* the files of directorio_entrada, in os.listdir order
    db_tabla,     \* the rows of reporte_liquidacion_frts
    exportador,   \* the ExportadorExcelMultiple: its sheets and row counters
    pdf,          \* the frame of extraer_datos_estructurados over one page
    equiv,        \* the two compare_with_facturas over one fetched table
    lote,         \* the frame of procesar_multiples_facturas
    cmp,          \* the frame of compare_with_facturas
    bd,           \* the frame of get_factura_data_from_db
    principal,    \* the frame of main.procesar_factura / main.procesar_directorio
    proc,         \* a FacturaProcessor and the result it returned
    ext           \* a call of one of the extractors: its input and its result

vars == <<entrada, hoy, directorio, db_tabla, exportador, pdf, equiv, lote, cmp, bd, principal, proc, ext>>

Pendiente == [t |-> "pendiente"]
Excepcion == [t |-> "excepcion"]
RUTA_EXCEL == "facturas_analizadas.xlsx"

LoteInactivo ==
    [pc |-> "inactivo", fecha_inicio |-> None, fecha_fin |-> None, idx |-> 0,
     hoja_facturas |-> <<>>, facturas_procesadas |-> <<>>, hoja_comparacion |-> None,
     guardado |-> FALSE, retorno |-> Pendiente]
CmpInactivo ==
    [pc |-> "inactivo", facturas_procesadas |-> <<>>, fecha_inicio |-> None,
     fecha_fin |-> None, fronteras |-> <<>>, retorno |-> Pendiente]
BdInactivo ==
    [pc |-> "inactivo", fecha_inicio |-> None, fecha_fin |-> None, fronteras |-> None,
     conn |-> "ninguna", consultas |-> <<>>, results |-> <<>>, retorno |-> Pendiente]

PrincipalInactivo ==
    [pc |-> "inactivo", fecha_seleccionada |-> None, retorno |-> Pendiente]
\* extraidos keeps the general fields as they were handed to the constructor,
\* previos the fields as they were before the last coercion
ProcInactivo ==
    [pc |-> "inactivo", extraidos |-> <<>>, datos_generales |-> <<>>,
     datos_componentes |-> <<>>, previos |-> <<>>, pasadas |-> 0,
     retorno |-> Pendiente]
\* a sheet is a function from row numbers to rows; llamadas keeps the calls of
\* agregar_factura in order, each with the identifier it returned
ExpInactivo ==
    [pc |-> "inactivo", ws_facturas |-> <<>>, ws_conceptos |-> <<>>,
     ws_autorizaciones |-> <<>>, ws_parametros |-> <<>>,
     fila_facturas |-> 0, fila_conceptos |-> 0, fila_autorizaciones |-> 0,
     fila_parametros |-> 0, generados |-> 0, llamadas |-> <<>>]
\* elementos_por_y is a function from row keys to lists of elements
PdfInactivo ==
    [pc |-> "inactivo", layout |-> <<>>, idx |-> 0, elementos_por_y |-> <<>>,
     filas_pagina |-> <<>>]
\* monolitico and modular hold what each compare_with_facturas returned
EquivInactivo ==
    [pc |-> "inactivo", facturas_procesadas |-> <<>>, db_data |-> None,
     monolitico |-> Pendiente, modular |-> Pendiente]
\* concepto_data keeps the list as the patterns left it
ExtInactivo ==
    [pc |-> "inactivo", content |-> <<>>, concepto_data |-> <<>>,
     linea_por_linea |-> FALSE, retorno |-> Pendiente]

\* a call of compare_with_facturas / get_factura_data_from_db
LlamarComparar(facturas_procesadas, fecha_inicio, fecha_fin) ==
    [CmpInactivo EXCEPT !.pc = "inicio", !.facturas_procesadas = facturas_procesadas,
                        !.fecha_inicio = fecha_inicio, !.fecha_fin = fecha_fin]
LlamarConsulta(fecha_inicio, fecha_fin, fronteras) ==
    [BdInactivo EXCEPT !.pc = "conectar", !.fecha_inicio = fecha_inicio,
                       !.fecha_fin = fecha_fin, !.fronteras = fronteras]

(***************************************************************************)
(* db_connector_comparacion: the comparison split into functions.  The     *)
(* bodies of the loops are those of the method, line for line; the mapping *)
(* of the general fields is its own.                                       *)
(***************************************************************************)
\* _get_variables_mapping(): contribucion_otros_meses reads the column
\* v_contribucion_otros_meses, the other fields the columns of the method
get_variables_mapping ==
    [i \in DOMAIN mapeo_variables |->
        IF mapeo_variables[i][1] = "contribucion_otros_meses"
        THEN <<"contribucion_otros_meses", "v_contribucion_otros_meses">>
        ELSE mapeo_variables[i]]

\* the SELECT list of db_connector_consultas: the aliases of the method and
\* the column v_contribucion_otros_meses
ColumnasConsultaModular == ColumnasConsulta \cup {"v_contribucion_otros_meses"}

compare_general_variables(factura, codigo_sic, columnas, fila, variables) ==
    [i \in DOMAIN variables |->
        CompararVariable(factura, codigo_sic, columnas, fila,
                         variables[i][1], variables[i][2])]
compare_energy_components(factura, codigo_sic, columnas, fila) ==
    Concat([j \in DOMAIN factura.componentes |->
               CompararComponente(factura, codigo_sic, columnas, fila,
                                  factura.componentes[j])])
add_empty_comparison_rows(factura, codigo_sic, variables) ==
    [i \in DOMAIN variables |->
        FilaVacia(factura, codigo_sic, variables[i][1],
                  Get(factura.datos_generales, variables[i][1], Num(0)))]
    \o Concat([j \in DOMAIN factura.componentes |->
                  ComponenteVacio(factura, codigo_sic, factura.componentes[j])])
create_empty_comparison_dataframe(facturas_procesadas) ==
    Concat([i \in DOMAIN facturas_procesadas |->
        LET codigo == Get(facturas_procesadas[i].datos_generales, "codigo_sic", Str(""))
        IN IF ~FronteraValida(codigo) THEN <<>>
           ELSE FilasSinDatos(facturas_procesadas[i], codigo.s)])

\* compare_with_facturas of db_connector_comparacion once the fetch has answered
compare_with_facturas(facturas_procesadas, db_data) ==
    IF db_data.t = "none" \/ db_data.filas = <<>>
    THEN create_empty_comparison_dataframe(facturas_procesadas)
    ELSE Concat([i \in DOMAIN facturas_procesadas |->
            LET factura == facturas_procesadas[i]
                codigo == Get(factura.datos_generales, "codigo_sic", Str(""))
                factura_db == SelectSeq(db_data.filas, LAMBDA r : Str(r.frt) = codigo)
            IN IF ~FronteraValida(codigo) THEN <<>>
               ELSE IF factura_db = <<>>
               THEN add_empty_comparison_rows(factura, codigo.s, get_variables_mapping)
               ELSE compare_general_variables(factura, codigo.s, db_data.columnas,
                                              factura_db[1], get_variables_mapping)
                    \o compare_energy_components(factura, codigo.s, db_data.columnas,
                                                 factura_db[1])])

(***************************************************************************)
(* ExportadorExcelMultiple.                                                *)
(***************************************************************************)
CABECERA == [t |-> "cabecera"]
NO_ESPECIFICADO == "No especificado"

\* ws.cell(row=fila, column=col_idx, value=value) for every column of a row
Escribir(ws, fila, valores) ==
    [r \in DOMAIN ws \cup {fila} |-> IF r = fila THEN valores ELSE ws[r]]

crear_cabeceras(self) ==
    [self EXCEPT !.ws_facturas = Escribir(@, 1, CABECERA),
                 !.ws_conceptos = Escribir(@, 1, CABECERA),
                 !.ws_autorizaciones = Escribir(@, 1, CABECERA),
                 !.ws_parametros = Escribir(@, 1, CABECERA),
                 !.fila_facturas = 2, !.fila_conceptos = 2,
                 !.fila_autorizaciones = 2, !.fila_parametros = 2]

\* __init__: the counters start at 1 and _crear_cabeceras moves them to 2
ExportadorExcelMultiple ==
    crear_cabeceras([ExpInactivo EXCEPT !.pc = "abierto",
                                        !.fila_facturas = 1, !.fila_conceptos = 1,
                                        !.fila_autorizaciones = 1,
                                        !.fila_parametros = 1])

\* str(uuid.uuid4()): an identifier no earlier call returned
uuid4(self) == [t |-> "uuid", n |-> self.generados + 1]

FilaFactura(invoice_id, nombre_archivo, datos_generales) ==
    [ID_Factura |-> invoice_id,
     Nombre_Archivo |-> IF nombre_archivo = None THEN Str(NO_ESPECIFICADO)
                        ELSE nombre_archivo,
     Numero_Factura |-> Get(datos_generales, "numero_factura", Str(NO_ENCONTRADO)),
     Codigo_SIC |-> Get(datos_generales, "codigo_sic", Str(NO_ENCONTRADO)),
     Neto_Pagar |-> Get(datos_generales, "neto_pagar", Num(0))]
FilaConcepto(invoice_id, codigo_sic, componente) ==
    [ID_Factura |-> invoice_id, Codigo_SIC |-> codigo_sic,
     Concepto |-> componente.concepto, KWh_KVArh |-> componente.kwh_kvarh,
     Total |-> componente.total]
FilaCodigo(invoice_id, codigo_sic) ==
    [ID_Factura |-> invoice_id, Codigo_SIC |-> codigo_sic]

\* the loop over componentes: a row at fila_conceptos, then fila_conceptos += 1
RECURSIVE EscribirConceptos(_, _, _, _, _)
EscribirConceptos(ws, fila, invoice_id, codigo_sic, componentes) ==
    IF componentes = <<>> THEN [ws |-> ws, fila |-> fila]
    ELSE EscribirConceptos(
             Escribir(ws, fila, FilaConcepto(invoice_id, codigo_sic, Head(componentes))),
             fila + 1, invoice_id, codigo_sic, Tail(componentes))

\* the same, with the Facturas counter left where it was
agregar_factura_sin_avanzar(self, datos_procesados, nombre_archivo) ==
    LET invoice_id == uuid4(self)
        datos_generales == datos_procesados.datos_generales
        codigo_sic == Get(datos_generales, "codigo_sic", Str(NO_ENCONTRADO))
        conceptos == EscribirConceptos(self.ws_conceptos, self.fila_conceptos, invoice_id,
                                       codigo_sic, datos_procesados.componentes)
    IN [self EXCEPT
           !.generados = @ + 1,
           !.ws_facturas = Escribir(@, self.fila_facturas,
                                    FilaFactura(invoice_id, nombre_archivo, datos_generales)),
           !.ws_conceptos = conceptos.ws,
           !.fila_conceptos = conceptos.fila,
           !.ws_autorizaciones = Escribir(@, self.fila_autorizaciones,
                                          FilaCodigo(invoice_id, codigo_sic)),
           !.fila_autorizaciones = @ + 1,
           !.ws_parametros = Escribir(@, self.fila_parametros,
                                      FilaCodigo(invoice_id, codigo_sic)),
           !.fila_parametros = @ + 1,
           !.llamadas = Append(@, [id |-> invoice_id, nombre_archivo |-> nombre_archivo,
                                   datos_procesados |-> datos_procesados])]

\* the exporter after agregar_factura; the identifier returned is the id of the
\* last entry of llamadas
agregar_factura(self, datos_procesados, nombre_archivo) ==
    LET invoice_id == uuid4(self)
        datos_generales == datos_procesados.datos_generales
        codigo_sic == Get(datos_generales, "codigo_sic", Str(NO_ENCONTRADO))
        conceptos == EscribirConceptos(self.ws_conceptos, self.fila_conceptos, invoice_id,
                                       codigo_sic, datos_procesados.componentes)
    IN [self EXCEPT
           !.generados = @ + 1,
           !.ws_facturas = Escribir(@, self.fila_facturas,
                                    FilaFactura(invoice_id, nombre_archivo, datos_generales)),
           !.ws_conceptos = conceptos.ws,
           !.fila_conceptos = conceptos.fila,
           !.ws_autorizaciones = Escribir(@, self.fila_autorizaciones,
                                          FilaCodigo(invoice_id, codigo_sic)),
           !.fila_autorizaciones = @ + 1,
           !.ws_parametros = Escribir(@, self.fila_parametros,
                                      FilaCodigo(invoice_id, codigo_sic)),
           !.fila_parametros = @ + 1,
           !.fila_facturas = @ + 1,
           !.llamadas = Append(@, [id |-> invoice_id, nombre_archivo |-> nombre_archivo,
                                   datos_procesados |-> datos_procesados])]

(***************************************************************************)
(* extraer_datos_estructurados: the fragments of a page grouped into rows.  *)
(***************************************************************************)
\* int(x / 10) for an integer coordinate: Python's int() drops the fraction,
\* towards zero
EnteroDeDecima(x) == IF x >= 0 THEN x \div 10 ELSE -((-x) \div 10)
\* the multiple of 10 nearest to the coordinate, halves upwards
ClaveRedondeada(y0) == ((y0 + 5) \div 10) * 10
\* y = int(element.y0 / 10) * 10
ClaveDeFila(y0) == EnteroDeDecima(y0) * 10

\* if y not in elementos_por_y: elementos_por_y[y] = []; then append
Agrupar(elementos_por_y, element) ==
    LET y == ClaveDeFila(element.y0)
    IN [k \in DOMAIN elementos_por_y \cup {y} |->
           IF k = y
           THEN (IF y \in DOMAIN elementos_por_y THEN elementos_por_y[y] ELSE <<>>)
                    \o <<element>>
           ELSE elementos_por_y[k]]

\* sorted(..., key=lambda e: e.x0): stable, ascending
RECURSIVE OrdenarPorX(_)
InsertarPorX(e, fila) ==
    LET antes == SelectSeq(fila, LAMBDA o : o.x0 <= e.x0)
        despues == SelectSeq(fila, LAMBDA o : o.x0 > e.x0)
    IN antes \o <<e>> \o despues
OrdenarPorX(elementos) ==
    IF elementos = <<>> THEN <<>>
    ELSE InsertarPorX(elementos[Len(elementos)],
                      OrdenarPorX(SubSeq(elementos, 1, Len(elementos) - 1)))

\* sorted(elementos_por_y.keys(), reverse=True)
RECURSIVE ClavesDescendentes(_)
ClavesDescendentes(claves) ==
    IF claves = {} THEN <<>>
    ELSE LET mayor == CHOOSE y \in claves : \A z \in claves : z <= y
         IN <<mayor>> \o ClavesDescendentes(claves \ {mayor})

\* the texts of a row, blank fragments dropped; a fragment of the model is one
\* word, which procesar_texto returns alone
TextosDeFila(elementos) ==
    LET con_texto == SelectSeq(OrdenarPorX(elementos), LAMBDA e : e.texto # "")
    IN [i \in DOMAIN con_texto |-> con_texto[i].texto]
FilasDePagina(elementos_por_y) ==
    LET claves == ClavesDescendentes(DOMAIN elementos_por_y)
        filas == [i \in DOMAIN claves |-> TextosDeFila(elementos_por_y[claves[i]])]
    IN SelectSeq(filas, LAMBDA fila : fila # <<>>)

(***************************************************************************)
(* Inputs.                                                                 *)
(***************************************************************************)
Fecha(f) == [t |-> "fecha", f |-> f]
MARZO_1 == <<2024, 3, 1>>
MARZO_15 == <<2024, 3, 15>>
MARZO_20 == <<2024, 3, 20>>
ABRIL_15 == <<2024, 4, 15>>
MAYO_10 == <<2024, 5, 10>>
ENERO_5 == <<2024, 1, 5>>
\* a date string of the right shape that strptime rejects
FEBRERO_30 == <<2024, 2, 30>>
FRONTERA_1 == "GEC1"
FRONTERA_2 == "GEC2"

Componente(concepto, kwh_kvarh, valor) ==
    [concepto |-> concepto, kwh_kvarh |-> kwh_kvarh, precio_kwh |-> valor,
     mes_corriente |-> valor, mes_anteriores |-> valor, total |-> valor]

\* the component lists of the model: none, Generacion with its quantity, or three
\* components as the extractor leaves them ("N/A" where the table has no quantity)
ListasComponentes(valor) ==
    { <<>>,
      <<Componente(GENERACION, valor, valor)>>,
      <<Componente(GENERACION, Str("N/A"), valor),
        Componente("Transmision", Str("N/A"), valor),
        Componente(REACTIVA, valor, valor)>> }

\* a ProcessedInvoice whose numeric fields all hold valor
DatosGenerales(codigo_sic, periodo, valor) ==
    [k \in Campos \cup {"fecha_vencimiento", "numero_factura"} |->
        CASE k = "codigo_sic" -> codigo_sic
          [] k = "periodo_facturacion" -> periodo
          [] k = "fecha_vencimiento" -> Str("2024-04-10")
          [] k = "numero_factura" -> Str("F1")
          [] OTHER -> valor]
Factura(codigo_sic, periodo, valor, componentes) ==
    [datos_generales |-> DatosGenerales(codigo_sic, periodo, valor),
     componentes |-> componentes]
ConId(factura, n) == [id |-> [t |-> "uuid", n |-> n]] @@ factura

FilaDB(frt, fechafacturacion, val) ==
    [frt |-> frt, fechafacturacion |-> fechafacturacion, val |-> val]

\* (invoice value, database value): the invoice within MaxDelta half-units of a
\* database value of 0, 100 or -100; a NULL in the database; strings in the invoice
ParesValor ==
    {<<Num(d + k), Num(d)>> : d \in {0, Base, -Base}, k \in (-MaxDelta)..MaxDelta}
    \cup {<<Num(k), None>> : k \in {0, 1}}
    \cup {<<Str("abc"), Num(0)>>, <<Str("7"), Num(7 * Uno)>>}

SeqHasta(S, n) == UNION {[1..k -> S] : k \in 0..n}

\* tables of up to MaxFilasDB rows; the first row holds val, the others another value
Tablas(val) ==
    LET filas == {<<frt, f>> : frt \in {FRONTERA_1, FRONTERA_2}, f \in {MARZO_15, MARZO_20, MAYO_10}}
    IN {[i \in DOMAIN t |-> FilaDB(t[i][1], t[i][2], IF i = 1 THEN val ELSE Num(i * Uno))]
            : t \in SeqHasta(filas, MaxFilasDB)}

CodigosSic == {Str(FRONTERA_1), Str(FRONTERA_2), Str(NO_ENCONTRADO), Str("")}
PeriodosModelo ==
    {Periodo(MARZO_1, SinFecha), Periodo(MARZO_1, ABRIL_15), Str(NO_ENCONTRADO),
     Periodo(ENERO_5, FEBRERO_30), Periodo(FEBRERO_30, SinFecha)}

\* the files of a directory: what each PDF yields when it is read
Archivo(tipo, datos) == [tipo |-> tipo, datos |-> datos]
ArchivosModelo ==
    {Archivo("pdf", Factura(c, Periodo(MARZO_1, SinFecha), Num(Base),
                            <<Componente(GENERACION, Num(Base), Num(Base))>>))
         : c \in {Str(FRONTERA_1), Str(NO_ENCONTRADO)}}
    \cup {Archivo("pdf_no_abre", None), Archivo("pdf_ilegible", None), Archivo("otro", None)}

\* compare_with_facturas on one invoice and one database row, over the values
InitValores ==
    \E par \in ParesValor, cs \in ListasComponentes(Num(0)) :
        /\ entrada = "comparar"
        /\ directorio = <<>>
        /\ db_tabla = <<FilaDB(FRONTERA_1, MARZO_15, par[2])>>
        /\ cmp = LlamarComparar(
               <<ConId(Factura(Str(FRONTERA_1), Periodo(MARZO_1, SinFecha), par[1],
                               [i \in DOMAIN cs |-> Componente(cs[i].concepto,
                                   IF cs[i].kwh_kvarh = Str("N/A") THEN Str("N/A") ELSE par[1],
                                   par[1])]), 1)>>,
               None, None)
        /\ lote = LoteInactivo
        /\ bd = BdInactivo
        /\ principal = PrincipalInactivo
        /\ proc = ProcInactivo
        /\ ext = ExtInactivo
        /\ exportador = ExpInactivo
        /\ pdf = PdfInactivo
        /\ equiv = EquivInactivo

\* a few tables: empty, the first frontier inside the range, the second outside it
TablasFijas ==
    { <<>>,
      <<FilaDB(FRONTERA_1, MARZO_15, Num(Base))>>,
      <<FilaDB(FRONTERA_2, MAYO_10, Num(Base)), FilaDB(FRONTERA_1, MARZO_15, Num(Base))>> }
FechasDadas == {<<None, None>>, <<Fecha(MARZO_15), Fecha(UltimoDiaDelMes(MARZO_15))>>}

\* compare_with_facturas over the invoices
InitFacturas ==
    \E c1 \in CodigosSic, p1 \in PeriodosModelo, cs \in ListasComponentes(Num(Base + 1)),
       otros \in SeqHasta(CodigosSic, MaxArchivos - 1), t \in TablasFijas,
       fechas \in FechasDadas :
        /\ entrada = "comparar"
        /\ directorio = <<>>
        /\ db_tabla = t
        /\ cmp = LlamarComparar(
               <<ConId(Factura(c1, p1, Num(Base + 1), cs), 1)>>
               \o [i \in DOMAIN otros |->
                      ConId(Factura(otros[i], Periodo(MARZO_1, SinFecha), Num(Base), <<>>), i + 1)],
               fechas[1], fechas[2])
        /\ lote = LoteInactivo
        /\ bd = BdInactivo
        /\ principal = PrincipalInactivo
        /\ proc = ProcInactivo
        /\ ext = ExtInactivo
        /\ exportador = ExpInactivo
        /\ pdf = PdfInactivo
        /\ equiv = EquivInactivo

\* compare_with_facturas over the rows of the table
InitTablas ==
    \E t \in Tablas(Num(Base)), c2 \in {Str(FRONTERA_2), Str(NO_ENCONTRADO)},
       fechas \in FechasDadas :
        /\ entrada = "comparar"
        /\ directorio = <<>>
        /\ db_tabla = t
        /\ cmp = LlamarComparar(
               <<ConId(Factura(Str(FRONTERA_1), Periodo(MARZO_1, SinFecha), Num(Base + 1),
                               <<Componente(GENERACION, Num(Base), Num(Base))>>), 1),
                 ConId(Factura(c2, Periodo(MARZO_1, SinFecha), Num(Base), <<>>), 2)>>,
               fechas[1], fechas[2])
        /\ lote = LoteInactivo
        /\ bd = BdInactivo
        /\ principal = PrincipalInactivo
        /\ proc = ProcInactivo
        /\ ext = ExtInactivo
        /\ exportador = ExpInactivo
        /\ pdf = PdfInactivo
        /\ equiv = EquivInactivo

\* procesar_multiples_facturas over the directories
InitLote ==
    \E d \in SeqHasta(ArchivosModelo, MaxArchivos),
       t \in TablasFijas, fechas \in FechasDadas :
        /\ entrada = "lote"
        /\ directorio = d
        /\ db_tabla = t
        /\ lote = [LoteInactivo EXCEPT !.pc = "inicio", !.fecha_inicio = fechas[1],
                                       !.fecha_fin = fechas[2]]
        /\ cmp = CmpInactivo
        /\ bd = BdInactivo
        /\ principal = PrincipalInactivo
        /\ proc = ProcInactivo
        /\ ext = ExtInactivo
        /\ exportador = ExpInactivo
        /\ pdf = PdfInactivo
        /\ equiv = EquivInactivo

\* get_factura_data_from_db called directly
InitConsulta ==
    \E t \in Tablas(Num(Base)),
       fronteras \in {None, Lista(<<>>), Lista(<<FRONTERA_1>>), Lista(<<FRONTERA_1, FRONTERA_2>>)} :
        /\ entrada = "consulta"
        /\ directorio = <<>>
        /\ db_tabla = t
        /\ lote = LoteInactivo
        /\ cmp = CmpInactivo
        /\ bd = LlamarConsulta(Fecha(MARZO_1), Fecha(UltimoDiaDelMes(MARZO_1)), fronteras)
        /\ principal = PrincipalInactivo
        /\ proc = ProcInactivo
        /\ ext = ExtInactivo
        /\ exportador = ExpInactivo
        /\ pdf = PdfInactivo
        /\ equiv = EquivInactivo

\* main.procesar_directorio over the directories, main.procesar_factura over one
\* file, with and without a selected date
InitPrincipal ==
    \E d \in SeqHasta(ArchivosModelo, MaxArchivos), t \in TablasFijas,
       e \in {"directorio", "factura"},
       fecha_seleccionada \in {None, Fecha(MARZO_1), Fecha(MARZO_15)} :
        /\ e = "factura" => Len(d) = 1
        /\ entrada = e
        /\ directorio = d
        /\ db_tabla = t
        /\ lote = LoteInactivo
        /\ cmp = CmpInactivo
        /\ bd = BdInactivo
        /\ principal = [PrincipalInactivo EXCEPT !.pc = e,
                                                 !.fecha_seleccionada = fecha_seleccionada]
        /\ proc = ProcInactivo
        /\ ext = ExtInactivo
        /\ exportador = ExpInactivo
        /\ pdf = PdfInactivo
        /\ equiv = EquivInactivo

\* the raw strings of the model: the non-empty strings of at most MaxCadena
\* characters over digits, comma, point and minus
Alfabeto == {"0", "1", ",", ".", "-"}
CadenasCrudas == {Cadena(cs) : cs \in SeqHasta(Alfabeto, MaxCadena) \ {<<>>}}
DIEZ == Cadena(<<"1", "0">>)

\* a dict from its (key, value) pairs, a key with value AUSENTE being left out
AUSENTE == [t |-> "ausente"]
Dicc(pares) ==
    LET presentes == {par \in pares : par[2] # AUSENTE}
    IN [k \in {par[1] : par \in presentes} |->
           (CHOOSE par \in presentes : par[1] = k)[2]]
GeneralesCrudos(fecha_vencimiento, periodo_facturacion, neto_pagar, ir) ==
    Dicc({<<"fecha_vencimiento", fecha_vencimiento>>,
          <<"periodo_facturacion", periodo_facturacion>>,
          <<"codigo_sic", Str(FRONTERA_1)>>,
          <<"numero_factura", DIEZ>>,
          <<"subtotal_base_energia", DIEZ>>,
          <<"neto_pagar", neto_pagar>>,
          <<"ir", ir>>})

NuevoProcesador(datos_generales, datos_componentes) ==
    [ProcInactivo EXCEPT !.pc = "nuevo",
                         !.extraidos = datos_generales,
                         !.datos_generales = datos_generales,
                         !.datos_componentes = datos_componentes]
InitProc(datos_generales, datos_componentes) ==
    /\ entrada = "procesar"
    /\ directorio = <<>>
    /\ db_tabla = <<>>
    /\ lote = LoteInactivo
    /\ cmp = CmpInactivo
    /\ bd = BdInactivo
    /\ principal = PrincipalInactivo
    /\ proc = NuevoProcesador(datos_generales, datos_componentes)
    /\ ext = ExtInactivo
    /\ exportador = ExpInactivo
    /\ pdf = PdfInactivo
    /\ equiv = EquivInactivo

\* FacturaProcessor over extracted data: every raw string in one numeric field
\* and in the fields of a component
InitCoercion ==
    \E valor \in CadenasCrudas \cup {Str(NO_ENCONTRADO)},
       cs \in {<<>>, <<Componente(GENERACION, Str("N/A"), DIEZ)>>} :
        \/ InitProc(GeneralesCrudos(Periodo(ABRIL_15, SinFecha), Periodo(MARZO_1, SinFecha),
                                    valor, DIEZ), cs)
        \/ /\ cs # <<>>
           /\ valor # Str(NO_ENCONTRADO)
           /\ InitProc(GeneralesCrudos(Periodo(ABRIL_15, SinFecha),
                                       Periodo(MARZO_1, SinFecha), DIEZ, DIEZ),
                       <<Componente(GENERACION, valor, DIEZ)>>)

\* FacturaProcessor over general fields that are missing, empty, zero or the
\* sentinel, without components and with components whose totals agree or not
\* with the reported subtotal
InitValidacion ==
    \E fecha_vencimiento \in {AUSENTE, None, Entero(0), Str(""), Str(NO_ENCONTRADO),
                              Periodo(ABRIL_15, SinFecha), Periodo(FEBRERO_30, SinFecha)},
       periodo_facturacion \in {AUSENTE, Entero(0), Str(""), Str(NO_ENCONTRADO),
                                Periodo(MARZO_1, SinFecha)},
       neto_pagar \in {AUSENTE, Cadena(<<>>), Cadena(<<"0">>), Str(NO_ENCONTRADO), DIEZ},
       total \in {DIEZ, Cadena(<<"1", "1">>), Cadena(<<"1", "1", "1">>), AUSENTE} :
        InitProc(GeneralesCrudos(fecha_vencimiento, periodo_facturacion, neto_pagar, DIEZ),
                 IF total = AUSENTE THEN <<>>
                 ELSE <<Componente(GENERACION, Str("N/A"), total)>>)

\* a call of an extractor over content
InitExt(funcion, content) ==
    /\ entrada = funcion
    /\ directorio = <<>>
    /\ db_tabla = <<>>
    /\ lote = LoteInactivo
    /\ cmp = CmpInactivo
    /\ bd = BdInactivo
    /\ principal = PrincipalInactivo
    /\ proc = ProcInactivo
    /\ ext = [ExtInactivo EXCEPT !.pc = funcion, !.content = content]
    /\ exportador = ExpInactivo
    /\ pdf = PdfInactivo
    /\ equiv = EquivInactivo

\* documents whose two addends are missing, plain, with thousands separators,
\* negative, with a leading comma, or no integer; the document prints a
\* subtotal of its own or none
CapturasModelo ==
    {NoCoincide, Cadena(<<"1">>), Cadena(<<"9", "9", "9">>),
     Cadena(<<"1", ",", "0", "0", "0">>), Cadena(<<"-", "1", ",", "5", "0", "0">>),
     Cadena(<<",", "5">>), Cadena(<<"-">>), Cadena(<<"1", "-", "1">>)}
InitCampos ==
    \E subtotal_base \in CapturasModelo, contribucion \in CapturasModelo,
       impreso \in {NoCoincide, Cadena(<<"7">>)} :
        InitExt("campos", [subtotal_base_energia |-> subtotal_base,
                           contribucion |-> contribucion,
                           subtotal_energia_contribucion_pesos |-> impreso,
                           neto_pagar |-> Cadena(<<"1", "0">>)])

\* the rows of the model: with the quantity column, without it, with a
\* spelling the patterns miss, with a quoted comma the patterns read as two
\* groups, and too short to be a row
V120 == Cadena(<<"1", "2", "0">>)
V15_5 == Cadena(<<"1", "5", ".", "5">>)
V1_000 == Cadena(<<"1", ",", "0", "0", "0">>)
VM200 == Cadena(<<"-", "2", "0", "0">>)
V800 == Cadena(<<"8", "0", "0">>)
V500 == Cadena(<<"5", "0", "0">>)
ConColumna == <<V120, V15_5, V1_000, VM200, V800>>
SinColumna == <<V15_5, V1_000, VM200, V800>>
LineaCompleta(nombre) ==
    IF nombre \in ConCantidad THEN Linea(nombre, ConColumna, ConColumna)
    ELSE Linea(nombre, SinColumna, SinColumna)
LineasModelo ==
    {Linea(nombre, ConColumna, ConColumna) : nombre \in ConCantidad}
      \cup {Linea(nombre, SinColumna, SinColumna) : nombre \in ConCantidad \cup {"Transmision"}}
      \cup {Linea(nombre, SinGrupos, ConColumna) : nombre \in ConCantidad}
      \cup {Linea(nombre, SinGrupos, <<V15_5, V800>>) : nombre \in {"Transmision", REACTIVA}}
      \cup {Linea(REACTIVA, ConColumna,
                  <<V120, V15_5, V1_000, Cadena(<<"-", "2", "0", "0", ",", "8", "0", "0">>)>>)}
\* documents with all eight rows or none, before up to MaxLineas other lines
InitComponentes ==
    \E funcion \in {"componentes", "tabla"},
       todas \in BOOLEAN, es_formato_nuevo \in BOOLEAN, tabla \in BOOLEAN,
       energia \in {NoCoincide, V500},
       otras \in SeqHasta(LineasModelo, MaxLineas) :
        /\ funcion = "componentes" => tabla
        /\ InitExt(funcion,
               [lineas |-> otras \o (IF todas
                                     THEN [k \in 1..8 |-> LineaCompleta(NOMBRES_CONCEPTOS[k])]
                                     ELSE <<>>),
                es_formato_nuevo |-> es_formato_nuevo,
                energia_activa |-> NoCoincide,
                energia_reactiva_total |-> energia,
                tabla |-> tabla,
                alternativos |-> IF tabla \/ energia = NoCoincide THEN <<>>
                                 ELSE [nombre \in ConCantidad |-> ConColumna]])

\* the invoices a caller hands to the exporter: no component, one, or three
FacturasExportables ==
    {Factura(Str(c), Periodo(MARZO_1, SinFecha), Num(Base), cs)
         : c \in {FRONTERA_1, FRONTERA_2}, cs \in ListasComponentes(Num(Base))}
\* an exporter just constructed
InitExportador ==
    /\ entrada = "exportador"
    /\ directorio = <<>>
    /\ db_tabla = <<>>
    /\ lote = LoteInactivo
    /\ cmp = CmpInactivo
    /\ bd = BdInactivo
    /\ principal = PrincipalInactivo
    /\ proc = ProcInactivo
    /\ ext = ExtInactivo
    /\ exportador = ExportadorExcelMultiple
    /\ pdf = PdfInactivo
    /\ equiv = EquivInactivo

\* the objects of a page: fragments of text at a vertical and a horizontal
\* coordinate, a blank fragment, and a drawing (no get_text)
Coordenadas == {-16, -4, 4, 9, 16, 20}
ElementosModelo ==
    {[y0 |-> y0, x0 |-> x0, texto |-> "a", tiene_texto |-> TRUE]
         : y0 \in Coordenadas, x0 \in {1, 2}}
    \cup {[y0 |-> 16, x0 |-> 1, texto |-> "", tiene_texto |-> TRUE],
          [y0 |-> 4, x0 |-> 1, texto |-> "", tiene_texto |-> FALSE]}
InitPagina ==
    \E layout \in SeqHasta(ElementosModelo, MaxElementos) :
        /\ entrada = "pagina"
        /\ directorio = <<>>
        /\ db_tabla = <<>>
        /\ lote = LoteInactivo
        /\ cmp = CmpInactivo
        /\ bd = BdInactivo
        /\ principal = PrincipalInactivo
        /\ proc = ProcInactivo
        /\ ext = ExtInactivo
        /\ exportador = ExpInactivo
        /\ pdf = [PdfInactivo EXCEPT !.pc = "agrupar", !.layout = layout, !.idx = 1]
        /\ equiv = EquivInactivo

\* one list of invoices and one fetched table handed to both comparisons: the
\* table is None, or has the columns of one of the two SELECT lists and no row,
\* a row of the frontier of the invoice or a row of another frontier
InitEquivalencia ==
    \E par_valor \in ParesValor, cs \in ListasComponentes(Num(Base)),
       codigo \in CodigosSic,
       columnas \in {ColumnasConsulta, ColumnasConsultaModular},
       filas_de \in {"ninguna", FRONTERA_1, FRONTERA_2},
       hay_tabla \in BOOLEAN :
      LET filas == IF filas_de = "ninguna" THEN <<>>
                   ELSE <<FilaDB(filas_de, MARZO_15, par_valor[2])>>
      IN
        /\ entrada = "equivalencia"
        /\ directorio = <<>>
        /\ db_tabla = <<>>
        /\ lote = LoteInactivo
        /\ cmp = CmpInactivo
        /\ bd = BdInactivo
        /\ principal = PrincipalInactivo
        /\ proc = ProcInactivo
        /\ ext = ExtInactivo
        /\ exportador = ExpInactivo
        /\ pdf = PdfInactivo
        /\ hay_tabla \/ (filas = <<>> /\ columnas = ColumnasConsulta)
        /\ equiv = [EquivInactivo EXCEPT
                     !.pc = "llamar",
                     !.facturas_procesadas =
                         <<ConId(Factura(codigo, Periodo(MARZO_1, SinFecha), par_valor[1], cs), 1)>>,
                     !.db_data = IF hay_tabla THEN DataFrame(columnas, filas) ELSE None]

Init ==
    /\ hoy = MARZO_15
    /\ (InitValores \/ InitFacturas \/ InitTablas \/ InitLote \/ InitConsulta
          \/ InitPrincipal \/ InitCoercion \/ InitValidacion \/ InitCampos
          \/ InitComponentes \/ InitExportador \/ InitPagina \/ InitEquivalencia)

(***************************************************************************)
(* get_factura_data_from_db, one step per call to the server.              *)
(***************************************************************************)
\* self.connect() returned None: the function returns None
ConectarFalla ==
    /\ bd.pc = "conectar"
    /\ bd' = [bd EXCEPT !.pc = "fin", !.retorno = None]
    /\ UNCHANGED <<entrada, hoy, directorio, db_tabla, exportador, pdf, equiv, ext, proc, principal, lote, cmp>>

ConectarOK ==
    /\ bd.pc = "conectar"
    /\ bd' = [bd EXCEPT !.pc = "principal", !.conn = "abierta"]
    /\ UNCHANGED <<entrada, hoy, directorio, db_tabla, exportador, pdf, equiv, ext, proc, principal, lote, cmp>>

\* cursor.execute(query, params); results = cursor.fetchall()
EjecutarPrincipal ==
    /\ bd.pc = "principal"
    /\ LET results == IF bd.fecha_inicio.t = "fecha" /\ bd.fecha_fin.t = "fecha"
                      THEN ConsultaPrincipal(db_tabla, bd.fecha_inicio.f, bd.fecha_fin.f,
                                             bd.fronteras)
                      ELSE <<>>
       IN bd' = [bd EXCEPT !.results = results,
                           !.consultas = Append(@, "principal"),
                           !.pc = IF IntentaAlternativa(results, bd.fronteras)
                                  THEN "alternativa" ELSE "cerrar"]
    /\ UNCHANGED <<entrada, hoy, directorio, db_tabla, exportador, pdf, equiv, ext, proc, principal, lote, cmp>>

\* cursor.execute(frontier_query, fronteras); results = cursor.fetchall()
EjecutarAlternativa ==
    /\ bd.pc = "alternativa"
    /\ bd' = [bd EXCEPT !.results = ConsultaAlternativa(db_tabla, bd.fronteras),
                        !.consultas = Append(@, "alternativa"),
                        !.pc = "cerrar"]
    /\ UNCHANGED <<entrada, hoy, directorio, db_tabla, exportador, pdf, equiv, ext, proc, principal, lote, cmp>>

\* "except Exception as e: logger.error(...); return None": what the function
\* returns when an execute raised, results being the rows fetched before
RetornoParcial(results) == DataFrame(ColumnasConsulta, results)
RetornoTrasFallo(results) == None

\* an execute raised: the handler returns, the connection stays as it is
FallaConsulta ==
    /\ bd.pc \in {"principal", "alternativa"}
    /\ bd' = [bd EXCEPT !.pc = "fin", !.retorno = RetornoTrasFallo(bd.results)]
    /\ UNCHANGED <<entrada, hoy, directorio, db_tabla, exportador, pdf, equiv, ext, proc, principal, lote, cmp>>

\* df = pd.DataFrame(results, columns=column_names); conn.close(); return df
CerrarYRetornar ==
    /\ bd.pc = "cerrar"
    /\ bd' = [bd EXCEPT !.pc = "fin", !.conn = "cerrada",
                        !.retorno = DataFrame(ColumnasConsulta, bd.results)]
    /\ UNCHANGED <<entrada, hoy, directorio, db_tabla, exportador, pdf, equiv, ext, proc, principal, lote, cmp>>

(***************************************************************************)
(* compare_with_facturas.                                                  *)
(***************************************************************************)
\* "if not fronteras: return pd.DataFrame()"
CompararSinFronteras ==
    /\ cmp.pc = "inicio"
    /\ Fronteras(cmp.facturas_procesadas) = <<>>
    /\ cmp' = [cmp EXCEPT !.pc = "fin", !.retorno = DataFrame({}, <<>>)]
    /\ UNCHANGED <<entrada, hoy, directorio, db_tabla, exportador, pdf, equiv, ext, proc, principal, lote, bd>>

\* the frontiers, the date range, and the call of get_factura_data_from_db; cmp
\* keeps the dates the caller gave, bd receives the dates handed to the fetch
CompararInicio ==
    /\ cmp.pc = "inicio"
    /\ Fronteras(cmp.facturas_procesadas) # <<>>
    /\ LET fronteras == Fronteras(cmp.facturas_procesadas)
           rango == extract_date_range_from_facturas(cmp.facturas_procesadas, hoy)
           derivar == ~Truthy(cmp.fecha_inicio) \/ ~Truthy(cmp.fecha_fin)
           fecha_inicio == IF derivar THEN Fecha(rango[1]) ELSE cmp.fecha_inicio
           fecha_fin == IF derivar THEN Fecha(rango[2]) ELSE cmp.fecha_fin
       IN /\ cmp' = [cmp EXCEPT !.pc = "esperando", !.fronteras = fronteras]
          /\ bd' = LlamarConsulta(fecha_inicio, fecha_fin, Lista(fronteras))
    /\ UNCHANGED <<entrada, hoy, directorio, db_tabla, exportador, pdf, equiv, ext, proc, principal, lote>>

\* the rows built from what the fetch returned
COLUMNAS_COMPARACION ==
    {"ID_Factura", "Frontera", "Concepto", "Valor_Factura", "Valor_Datalake",
     "Diferencia", "Estado"}
CompararFin ==
    /\ cmp.pc = "esperando"
    /\ bd.pc = "fin"
    /\ cmp' = [cmp EXCEPT !.pc = "fin",
                          !.retorno = DataFrame(COLUMNAS_COMPARACION,
                                          Comparaciones(cmp.facturas_procesadas, bd.retorno))]
    /\ UNCHANGED <<entrada, hoy, directorio, db_tabla, exportador, pdf, equiv, ext, proc, principal, lote, bd>>

(***************************************************************************)
(* procesar_multiples_facturas.                                            *)
(***************************************************************************)
\* [f for f in os.listdir(directorio_entrada) if f.lower().endswith('.pdf')]
archivos_pdf == SelectSeq(directorio, LAMBDA a : a.tipo # "otro")

\* "if not archivos_pdf: return None"
SinPDF ==
    /\ lote.pc = "inicio"
    /\ archivos_pdf = <<>>
    /\ lote' = [lote EXCEPT !.pc = "fin", !.retorno = None]
    /\ UNCHANGED <<entrada, hoy, directorio, db_tabla, exportador, pdf, equiv, ext, proc, principal, cmp, bd>>

\* a caller adds one more processed invoice to an open exporter
AgregarFactura ==
    /\ entrada = "exportador"
    /\ exportador.pc = "abierto"
    /\ Len(exportador.llamadas) < MaxFacturas
    /\ \E datos_procesados \in FacturasExportables, nombre_archivo \in {None, Str("a.pdf")} :
           exportador' = agregar_factura(exportador, datos_procesados, nombre_archivo)
    /\ UNCHANGED <<entrada, hoy, directorio, db_tabla, pdf, equiv, ext, proc, principal, lote, cmp, bd>>

(***************************************************************************)
(* procesar_multiples_facturas.                                            *)
(***************************************************************************)
\* exportador = ExportadorExcelMultiple(ruta_excel)
CrearExportador ==
    /\ lote.pc = "inicio"
    /\ archivos_pdf # <<>>
    /\ lote' = [lote EXCEPT !.pc = "bucle", !.idx = 1]
    /\ exportador' = ExportadorExcelMultiple
    /\ UNCHANGED <<entrada, hoy, directorio, db_tabla, pdf, equiv, ext, proc, principal, cmp, bd>>

EnBucle == lote.pc = "bucle" /\ lote.idx <= Len(archivos_pdf)

\* "if not procesamiento.validar_ruta_archivo(ruta_pdf): continue"
OmitirArchivo ==
    /\ EnBucle
    /\ archivos_pdf[lote.idx].tipo = "pdf_no_abre"
    /\ lote' = [lote EXCEPT !.idx = @ + 1]
    /\ UNCHANGED <<entrada, hoy, directorio, db_tabla, exportador, pdf, equiv, ext, proc, principal, cmp, bd>>

\* the file opens but extractores.convertir_pdf_a_csv raises on its content:
\* nothing in the loop or above it catches, the function is left by the exception
FalloAlConvertir ==
    /\ EnBucle
    /\ archivos_pdf[lote.idx].tipo = "pdf_ilegible"
    /\ lote' = [lote EXCEPT !.pc = "abortado", !.retorno = Excepcion]
    /\ UNCHANGED <<entrada, hoy, directorio, db_tabla, exportador, pdf, equiv, ext, proc, principal, cmp, bd>>

\* convert, extract, process, exportador.agregar_factura, facturas_procesadas.append
ProcesarArchivo ==
    /\ EnBucle
    /\ archivos_pdf[lote.idx].tipo = "pdf"
    /\ LET datos_procesados == archivos_pdf[lote.idx].datos
           n == Len(lote.hoja_facturas) + 1
       IN lote' = [lote EXCEPT
               !.idx = @ + 1,
               !.hoja_facturas = Append(@, [ID |-> [t |-> "uuid", n |-> n],
                                            Archivo |-> lote.idx]),
               !.facturas_procesadas = Append(@, ConId(datos_procesados, n))]
    /\ exportador' = agregar_factura(exportador, archivos_pdf[lote.idx].datos,
                                     [t |-> "archivo", idx |-> lote.idx])
    /\ UNCHANGED <<entrada, hoy, directorio, db_tabla, pdf, equiv, ext, proc, principal, cmp, bd>>

\* the loop is over: compare if any invoice was processed
FinBucle ==
    /\ lote.pc = "bucle"
    /\ lote.idx > Len(archivos_pdf)
    /\ IF lote.facturas_procesadas # <<>>
       THEN /\ lote' = [lote EXCEPT !.pc = "comparando"]
            /\ cmp' = LlamarComparar(lote.facturas_procesadas, lote.fecha_inicio,
                                     lote.fecha_fin)
       ELSE /\ lote' = [lote EXCEPT !.pc = "finalizar"]
            /\ cmp' = cmp
    /\ UNCHANGED <<entrada, hoy, directorio, db_tabla, exportador, pdf, equiv, ext, proc, principal, bd>>

\* "if not comparaciones_df.empty: exportador.agregar_hoja_comparacion(comparaciones_df)":
\* the sheet "Comparacion DB" of the workbook, None when it is not created
HojaComparacionNunca(comparaciones_df) == None
HojaComparacion(comparaciones_df) ==
    IF comparaciones_df.filas # <<>> THEN comparaciones_df ELSE None

\* compare_with_facturas has returned
RecibirComparacion ==
    /\ lote.pc = "comparando"
    /\ cmp.pc = "fin"
    /\ lote' = [lote EXCEPT !.pc = "finalizar",
                            !.hoja_comparacion = HojaComparacion(cmp.retorno)]
    /\ UNCHANGED <<entrada, hoy, directorio, db_tabla, exportador, pdf, equiv, ext, proc, principal, cmp, bd>>

\* ruta_final = exportador.finalizar(); return ruta_final
Finalizar ==
    /\ lote.pc = "finalizar"
    /\ lote' = [lote EXCEPT !.pc = "fin", !.guardado = TRUE, !.retorno = Str(RUTA_EXCEL)]
    /\ UNCHANGED <<entrada, hoy, directorio, db_tabla, exportador, pdf, equiv, ext, proc, principal, cmp, bd>>

(***************************************************************************)
(* main.procesar_directorio and main.procesar_factura.                     *)
(***************************************************************************)
\* "fecha_inicio = fecha_seleccionada; ... fecha_fin = f'{year}-{month:02d}-{ultimo_dia:02d}'"
Ventana(fecha_seleccionada) ==
    IF Truthy(fecha_seleccionada)
    THEN <<fecha_seleccionada, Fecha(UltimoDiaDelMes(fecha_seleccionada.f))>>
    ELSE <<None, None>>

\* procesar_directorio up to the call of procesar_multiples_facturas
ProcesarDirectorio ==
    /\ principal.pc = "directorio"
    /\ IF archivos_pdf = <<>>
       THEN /\ principal' = [principal EXCEPT !.pc = "fin", !.retorno = None]
            /\ lote' = lote
       ELSE /\ principal' = [principal EXCEPT !.pc = "esperando"]
            /\ lote' = [LoteInactivo EXCEPT
                           !.pc = "inicio",
                           !.fecha_inicio = Ventana(principal.fecha_seleccionada)[1],
                           !.fecha_fin = Ventana(principal.fecha_seleccionada)[2]]
    /\ UNCHANGED <<entrada, hoy, directorio, db_tabla, exportador, pdf, equiv, ext, proc, cmp, bd>>

\* procesar_multiples_facturas returned, or was left by an exception that
\* procesar_directorio does not catch either
DirectorioFin ==
    /\ principal.pc = "esperando"
    /\ entrada = "directorio"
    /\ lote.pc \in {"fin", "abortado"}
    /\ principal' = [principal EXCEPT !.pc = "fin", !.retorno = lote.retorno]
    /\ UNCHANGED <<entrada, hoy, directorio, db_tabla, exportador, pdf, equiv, ext, proc, lote, cmp, bd>>

\* procesar_factura up to the comparison: a file that is missing or cannot be
\* converted ends in "return None" (the whole body is inside try/except)
ProcesarFactura ==
    /\ principal.pc = "factura"
    /\ LET archivo == directorio[1]
           ventana == Ventana(principal.fecha_seleccionada)
       IN IF archivo.tipo # "pdf"
          THEN /\ principal' = [principal EXCEPT !.pc = "fin", !.retorno = None]
               /\ cmp' = cmp
          ELSE IF Truthy(principal.fecha_seleccionada)
          THEN /\ principal' = [principal EXCEPT !.pc = "esperando"]
               /\ cmp' = LlamarComparar(<<archivo.datos>>, ventana[1], ventana[2])
          ELSE /\ principal' = [principal EXCEPT !.pc = "exportar"]
               /\ cmp' = cmp
    /\ UNCHANGED <<entrada, hoy, directorio, db_tabla, exportador, pdf, equiv, ext, proc, lote, bd>>

\* datos_procesados["comparacion_bd"] = ...
FacturaComparada ==
    /\ principal.pc = "esperando"
    /\ entrada = "factura"
    /\ cmp.pc = "fin"
    /\ principal' = [principal EXCEPT !.pc = "exportar"]
    /\ UNCHANGED <<entrada, hoy, directorio, db_tabla, exportador, pdf, equiv, ext, proc, lote, cmp, bd>>

\* exportador.exportar(); return datos_procesados
ExportarFactura ==
    /\ principal.pc = "exportar"
    /\ principal' = [principal EXCEPT !.pc = "fin", !.retorno = directorio[1].datos]
    /\ UNCHANGED <<entrada, hoy, directorio, db_tabla, exportador, pdf, equiv, ext, proc, lote, cmp, bd>>

(***************************************************************************)
(* FacturaProcessor: the constructor, a second constructor over the data   *)
(* the first one left, and obtener_datos_procesados.                       *)
(***************************************************************************)
Limpiar ==
    [proc EXCEPT !.pc = "limpio",
                 !.previos = <<proc.datos_generales, proc.datos_componentes>>,
                 !.datos_generales = limpiar_datos_generales(proc.datos_generales),
                 !.datos_componentes = limpiar_datos_componentes(proc.datos_componentes),
                 !.pasadas = @ + 1]

Construir ==
    /\ proc.pc = "nuevo"
    /\ proc' = Limpiar
    /\ UNCHANGED <<entrada, hoy, directorio, db_tabla, exportador, pdf, equiv, ext, lote, cmp, bd, principal>>

Reprocesar ==
    /\ proc.pc = "limpio"
    /\ proc.pasadas < MaxPasadas
    /\ proc' = Limpiar
    /\ UNCHANGED <<entrada, hoy, directorio, db_tabla, exportador, pdf, equiv, ext, lote, cmp, bd, principal>>

ObtenerDatosProcesados ==
    /\ proc.pc = "limpio"
    /\ proc' = [proc EXCEPT !.pc = "fin",
                            !.retorno = obtener_datos_procesados(proc.datos_generales,
                                                                 proc.datos_componentes)]
    /\ UNCHANGED <<entrada, hoy, directorio, db_tabla, exportador, pdf, equiv, ext, lote, cmp, bd, principal>>

(***************************************************************************)
(* The two comparisons over one fetched table.                             *)
(***************************************************************************)
\* DBConnector.compare_with_facturas from the fetched table on
CompararMonolitico ==
    /\ equiv.pc = "llamar"
    /\ equiv.monolitico = Pendiente
    /\ equiv' = [equiv EXCEPT !.monolitico = Comparaciones(equiv.facturas_procesadas, equiv.db_data)]
    /\ UNCHANGED <<entrada, hoy, directorio, db_tabla, exportador, pdf, ext, proc, principal, lote, cmp, bd>>

\* db_connector_comparacion.compare_with_facturas from the fetched table on
CompararModular ==
    /\ equiv.pc = "llamar"
    /\ equiv.modular = Pendiente
    /\ equiv' = [equiv EXCEPT !.modular = compare_with_facturas(equiv.facturas_procesadas,
                                                            equiv.db_data)]
    /\ UNCHANGED <<entrada, hoy, directorio, db_tabla, exportador, pdf, ext, proc, principal, lote, cmp, bd>>

(***************************************************************************)
(* The page of a PDF.                                                      *)
(***************************************************************************)
\* one turn of "for element in layout"
AgruparElemento ==
    /\ pdf.pc = "agrupar"
    /\ pdf.idx <= Len(pdf.layout)
    /\ pdf' = [pdf EXCEPT
                  !.idx = @ + 1,
                  !.elementos_por_y =
                      IF pdf.layout[pdf.idx].tiene_texto
                      THEN Agrupar(@, pdf.layout[pdf.idx]) ELSE @]
    /\ UNCHANGED <<entrada, hoy, directorio, db_tabla, exportador, equiv, ext, proc, principal, lote, cmp, bd>>

\* the rows of the page, top to bottom, each left to right
OrdenarFilas ==
    /\ pdf.pc = "agrupar"
    /\ pdf.idx > Len(pdf.layout)
    /\ pdf' = [pdf EXCEPT !.pc = "fin",
                          !.filas_pagina = FilasDePagina(pdf.elementos_por_y)]
    /\ UNCHANGED <<entrada, hoy, directorio, db_tabla, exportador, equiv, ext, proc, principal, lote, cmp, bd>>

(***************************************************************************)
(* The extractors.                                                         *)
(***************************************************************************)
ExtraerDatosFactura ==
    /\ ext.pc = "campos"
    /\ ext' = [ext EXCEPT !.pc = "campos_fin",
                          !.retorno = extraer_datos_factura(ext.content)]
    /\ UNCHANGED <<entrada, hoy, directorio, db_tabla, exportador, pdf, equiv, lote, cmp, bd, principal, proc>>

\* extractores_componentes.extraer_tabla_componentes: the patterns, then the
\* lines when fewer than 8 components were found
ExtraerPorPatrones ==
    /\ ext.pc = "componentes"
    /\ ext' = [ext EXCEPT !.pc = "patrones", !.concepto_data = PorPatrones(ext.content)]
    /\ UNCHANGED <<entrada, hoy, directorio, db_tabla, exportador, pdf, equiv, lote, cmp, bd, principal, proc>>

ExtraerLineaPorLinea ==
    /\ ext.pc = "patrones"
    /\ Len(ext.concepto_data) < 8
    /\ ext' = [ext EXCEPT !.pc = "componentes_fin",
                          !.linea_por_linea = TRUE,
                          !.retorno = LineaPorLinea(ext.content, 1, ext.concepto_data)]
    /\ UNCHANGED <<entrada, hoy, directorio, db_tabla, exportador, pdf, equiv, lote, cmp, bd, principal, proc>>

RetornarComponentes ==
    /\ ext.pc = "patrones"
    /\ Len(ext.concepto_data) >= 8
    /\ ext' = [ext EXCEPT !.pc = "componentes_fin", !.retorno = ext.concepto_data]
    /\ UNCHANGED <<entrada, hoy, directorio, db_tabla, exportador, pdf, equiv, lote, cmp, bd, principal, proc>>

\* extractores.extraer_tabla_componentes: the table or the alternative
\* patterns, then the reactive row
ExtraerPorTabla ==
    /\ ext.pc = "tabla"
    /\ ext' = [ext EXCEPT !.pc = "tabla_lista", !.concepto_data = PorTabla(ext.content)]
    /\ UNCHANGED <<entrada, hoy, directorio, db_tabla, exportador, pdf, equiv, lote, cmp, bd, principal, proc>>

RecuperarReactiva ==
    /\ ext.pc = "tabla_lista"
    /\ ext' = [ext EXCEPT !.pc = "tabla_fin",
                          !.linea_por_linea = TRUE,
                          !.retorno = RecuperarReactivaDe(ext.content, ext.concepto_data)]
    /\ UNCHANGED <<entrada, hoy, directorio, db_tabla, exportador, pdf, equiv, lote, cmp, bd, principal, proc>>

Next ==
    \/ AgregarFactura
    \/ CompararMonolitico
    \/ CompararModular
    \/ AgruparElemento
    \/ OrdenarFilas
    \/ ExtraerPorPatrones
    \/ ExtraerLineaPorLinea
    \/ RetornarComponentes
    \/ ExtraerPorTabla
    \/ RecuperarReactiva
    \/ ExtraerDatosFactura
    \/ Construir
    \/ Reprocesar
    \/ ObtenerDatosProcesados
    \/ ProcesarDirectorio
    \/ DirectorioFin
    \/ ProcesarFactura
    \/ FacturaComparada
    \/ ExportarFactura
    \/ ConectarFalla
    \/ ConectarOK
    \/ EjecutarPrincipal
    \/ EjecutarAlternativa
    \/ FallaConsulta
    \/ CerrarYRetornar
    \/ CompararSinFronteras
    \/ CompararInicio
    \/ CompararFin
    \/ SinPDF
    \/ CrearExportador
    \/ OmitirArchivo
    \/ FalloAlConvertir
    \/ ProcesarArchivo
    \/ FinBucle
    \/ RecibirComparacion
    \/ Finalizar

Spec == Init /\ [][Next]_vars

(***************************************************************************)
(* Properties of the comparison against database rows.                     *)
(***************************************************************************)
\* compare_with_facturas has returned after a fetch that brought rows
ComparacionConDatos ==
    /\ cmp.pc = "fin"
    /\ bd.pc = "fin"
    /\ bd.retorno.t = "df"
    /\ bd.retorno.filas # <<>>

\* the invoice has a frontier code, and the fetched rows of that frontier
TieneFrontera(f) ==
    LET codigo == f.datos_generales["codigo_sic"]
    IN codigo.t = "str" /\ codigo.s \notin {"", "No encontrado"}
FilasDeFrontera(f) ==
    SelectSeq(bd.retorno.filas, LAMBDA r : r.frt = f.datos_generales["codigo_sic"].s)
ConFilaDB(f) == TieneFrontera(f) /\ FilasDeFrontera(f) # <<>>

\* the rows of the result for an invoice and a concept
FilasResultado(f, concepto) ==
    {r \in Rango(cmp.retorno.filas) : r.ID_Factura = Get(f, "id", Str("")) /\ r.Concepto = concepto}

\* the database value of a column for the invoice, after numeric conversion
EnDB(f, col) == AFloat(ValorDB(bd.retorno.columnas, FilasDeFrontera(f)[1], col))

\* the column of the database a general field is compared with
ColumnaDe(campo) ==
    LET i == CHOOSE i \in DOMAIN mapeo_variables : mapeo_variables[i][1] = campo
    IN mapeo_variables[i][2]

\* the general fields other than the three of reactive energy
CamposNoReactiva ==
    Campos \ {"energia_reactiva_inductiva", "energia_reactiva_capacitiva",
              "total_energia_reactiva"}

\* C1: for every invoice whose frontier has a database row and every component
\* whose concept is mapped, the row of the component total exists and its Estado
\* is "Alerta" if and only if |invoice_total - db_total| > 1, "OK" otherwise
\* (a difference of exactly 1 is "OK").
C1_TotalComponente ==
    ComparacionConDatos =>
        \A i \in DOMAIN cmp.facturas_procesadas :
            LET f == cmp.facturas_procesadas[i]
            IN ConFilaDB(f) =>
                \A j \in DOMAIN f.componentes :
                    LET c == f.componentes[j]
                        invoice_total == AFloat(c.total)
                        db_total == EnDB(f, componentes_map(c.concepto, "total").s)
                    IN c.concepto \in ConceptosMapeados =>
                        /\ FilasResultado(f, c.concepto) # {}
                        /\ \A r \in FilasResultado(f, c.concepto) :
                              r.Estado = IF Abs(invoice_total - db_total) > Uno
                                         THEN "Alerta" ELSE "OK"

\* a component total exactly 1 above the database total, reported "OK"
C1_Witness ==
    /\ ComparacionConDatos
    /\ \E r \in Rango(cmp.retorno.filas) :
          /\ r.Concepto = GENERACION
          /\ r.Valor_Datalake # None
          /\ r.Valor_Factura.v - r.Valor_Datalake.v = Uno
          /\ r.Estado = "OK"

\* C2: for each of the three reactive-energy general fields of an invoice whose
\* frontier has a database row, Estado is "Alerta" if and only if
\* |invoice - db| > 0.5, whatever the database value (0 included).
C2_Reactiva ==
    ComparacionConDatos =>
        \A i \in DOMAIN cmp.facturas_procesadas :
            LET f == cmp.facturas_procesadas[i]
            IN ConFilaDB(f) =>
                \A campo \in {"energia_reactiva_inductiva", "energia_reactiva_capacitiva",
                              "total_energia_reactiva"} :
                    LET invoice == AFloat(f.datos_generales[campo])
                        db == EnDB(f, ColumnaDe(campo))
                    IN /\ FilasResultado(f, campo) # {}
                       /\ \A r \in FilasResultado(f, campo) :
                             r.Estado = IF 2 * Abs(invoice - db) > Uno
                                        THEN "Alerta" ELSE "OK"

\* the database has 0 and the invoice 0.5: a reactive field is "OK", not 100 %
C2_Witness ==
    /\ ComparacionConDatos
    /\ \E r \in Rango(cmp.retorno.filas) :
          /\ r.Concepto = "total_energia_reactiva"
          /\ r.Valor_Datalake = Num(0)
          /\ 2 * r.Valor_Factura.v = Uno
          /\ r.Estado = "OK"

\* C3: for every non-reactive general field of an invoice whose frontier has a
\* database row, when the database value (after numeric conversion) is 0 the row
\* is "OK" with Diferencia 0 if the invoice value is 0, and "Alerta" with
\* Diferencia exactly 100 if the invoice value is not 0.
C3_SinBase ==
    ComparacionConDatos =>
        \A i \in DOMAIN cmp.facturas_procesadas :
            LET f == cmp.facturas_procesadas[i]
            IN ConFilaDB(f) =>
                \A campo \in CamposNoReactiva :
                    LET invoice == AFloat(f.datos_generales[campo])
                        db == EnDB(f, ColumnaDe(campo))
                    IN db = 0 =>
                        /\ FilasResultado(f, campo) # {}
                        /\ \A r \in FilasResultado(f, campo) :
                              IF invoice = 0
                              THEN r.Estado = "OK" /\ r.Diferencia = Pct(0, 1)
                              ELSE r.Estado = "Alerta" /\ r.Diferencia = Pct(100, 1)

\* the database has 0 and the invoice half a unit: "Alerta" with Diferencia 100
C3_Witness ==
    /\ ComparacionConDatos
    /\ \E r \in Rango(cmp.retorno.filas) :
          /\ r.Concepto = "subtotal_base_energia"
          /\ r.Valor_Datalake = Num(0)
          /\ r.Valor_Factura = Num(1)
          /\ r.Estado = "Alerta"
          /\ r.Diferencia = Pct(100, 1)

\* C4: for every non-reactive general field whose database value is not 0,
\* Diferencia equals |invoice - db| / |db| * 100 and Estado is "Alerta" if and only
\* if that percentage is >= 1 (exactly 1 % is "Alerta"), "OK" otherwise.
C4_Porcentaje ==
    ComparacionConDatos =>
        \A i \in DOMAIN cmp.facturas_procesadas :
            LET f == cmp.facturas_procesadas[i]
            IN ConFilaDB(f) =>
                \A campo \in CamposNoReactiva :
                    LET invoice == AFloat(f.datos_generales[campo])
                        db == EnDB(f, ColumnaDe(campo))
                    IN db # 0 =>
                        /\ FilasResultado(f, campo) # {}
                        /\ \A r \in FilasResultado(f, campo) :
                              /\ r.Diferencia.t = "pct"
                              /\ r.Diferencia.n * Abs(db)
                                    = Abs(invoice - db) * 100 * r.Diferencia.d
                              /\ r.Estado = IF Abs(invoice - db) * 100 >= Abs(db)
                                            THEN "Alerta" ELSE "OK"

\* a field exactly 1 % away from a database value that is not 0, reported "Alerta"
C4_Witness ==
    /\ ComparacionConDatos
    /\ \E r \in Rango(cmp.retorno.filas) :
          /\ r.Concepto = "subtotal_base_energia"
          /\ r.Valor_Datalake = Num(-Base)
          /\ Abs(r.Valor_Factura.v - r.Valor_Datalake.v) * 100 = Base
          /\ r.Estado = "Alerta"

(***************************************************************************)
(* Properties of the frontier list and of the comparison without data.     *)
(***************************************************************************)
SinCodigo(f) == f.datos_generales["codigo_sic"] = Str("No encontrado")

\* C5: an invoice whose codigo_sic is "No encontrado" contributes no entry to the
\* frontier list sent to the query and no row to the result of the comparison,
\* whether the database gave rows, an empty result or none.
C5_SinFrontera ==
    cmp.pc \in {"esperando", "fin"} =>
        /\ bd.pc # "inactivo" =>
              /\ "No encontrado" \notin Rango(bd.fronteras.l)
              /\ Len(bd.fronteras.l) <=
                    Cardinality({i \in DOMAIN cmp.facturas_procesadas :
                                    ~SinCodigo(cmp.facturas_procesadas[i])})
        /\ cmp.pc = "fin" =>
              \A i \in DOMAIN cmp.facturas_procesadas :
                  SinCodigo(cmp.facturas_procesadas[i]) =>
                      \A r \in Rango(cmp.retorno.filas) :
                          /\ r.ID_Factura # Get(cmp.facturas_procesadas[i], "id", Str(""))
                          /\ r.Frontera # "No encontrado"

\* an invoice without code compared next to one with code, the database giving rows
C5_Witness ==
    /\ ComparacionConDatos
    /\ cmp.retorno.filas # <<>>
    /\ Len(bd.fronteras.l) < Len(cmp.facturas_procesadas)
    /\ \E i \in DOMAIN cmp.facturas_procesadas : SinCodigo(cmp.facturas_procesadas[i])

\* the fetch has returned None or a DataFrame without rows, and the comparison ended
SinDatosBD ==
    /\ cmp.pc = "fin"
    /\ bd.pc = "fin"
    /\ (bd.retorno = None \/ (bd.retorno.t = "df" /\ bd.retorno.filas = <<>>))

\* C6: when the fetch fails or returns no rows, the comparison does not raise: it
\* returns rows for every invoice with a valid frontier, and every row has Estado
\* "No encontrado en DB" with Valor_Datalake and Diferencia absent.
C6_SinDatos ==
    SinDatosBD =>
        /\ cmp.retorno.t = "df"
        /\ \A i \in DOMAIN cmp.facturas_procesadas :
              TieneFrontera(cmp.facturas_procesadas[i]) =>
                  \E r \in Rango(cmp.retorno.filas) :
                      r.ID_Factura = Get(cmp.facturas_procesadas[i], "id", Str(""))
        /\ \A r \in Rango(cmp.retorno.filas) :
              /\ r.Estado = "No encontrado en DB"
              /\ r.Valor_Datalake = None
              /\ r.Diferencia = None

\* both queries ran and gave nothing, and the comparison of two invoices returned rows
C6_Witness ==
    /\ SinDatosBD
    /\ bd.retorno.t = "df"
    /\ bd.consultas = <<"principal", "alternativa">>
    /\ \E r1, r2 \in Rango(cmp.retorno.filas) : r1.ID_Factura # r2.ID_Factura

(***************************************************************************)
(* Properties of procesar_multiples_facturas.                              *)
(***************************************************************************)
\* the connection or a query failed: get_factura_data_from_db returned None
FalloBD == bd.pc = "fin" /\ bd.retorno = None

\* C7 as stated: when the connection or a query fails, the export completes and
\* the finalized workbook has no comparison sheet.
C7_SinHoja ==
    (entrada = "lote" /\ FalloBD /\ lote.pc = "fin") =>
        /\ lote.guardado
        /\ lote.hoja_comparacion = None

\* C7: when the connection or a query fails, the export is not interrupted, and
\* the finalized workbook has the comparison sheet, all its rows with Estado
\* "No encontrado en DB".
C7_HojaSinDatos ==
    (entrada = "lote" /\ FalloBD) =>
        /\ lote.pc \in {"comparando", "finalizar", "fin"}
        /\ lote.pc \in {"finalizar", "fin"} =>
              /\ lote.hoja_comparacion # None
              /\ lote.hoja_comparacion.filas # <<>>
              /\ \A r \in Rango(lote.hoja_comparacion.filas) :
                    r.Estado = "No encontrado en DB"
        /\ lote.pc = "fin" =>
              /\ lote.guardado
              /\ lote.retorno = Str(RUTA_EXCEL)

\* a run that ended after the connection failed, the sheet in the saved workbook
C7_Witness ==
    /\ entrada = "lote"
    /\ FalloBD
    /\ bd.conn = "ninguna"
    /\ lote.pc = "fin"
    /\ lote.guardado
    /\ lote.hoja_comparacion # None

\* the PDF files of the directory that convert, extract and process
Legibles == {i \in DOMAIN archivos_pdf : archivos_pdf[i].tipo = "pdf"}

\* C8: a PDF that cannot be read is skipped without aborting the run, and at the
\* end the sheet "Facturas" has as many data rows as the directory has readable PDFs.
C8_OmiteIlegibles ==
    entrada = "lote" =>
        /\ lote.pc # "abortado"
        /\ (lote.pc = "fin" /\ archivos_pdf # <<>>) =>
              Len(lote.hoja_facturas) = Cardinality(Legibles)

\* C9: with at least one PDF in the directory, every run ends with the workbook
\* saved and its path returned, whatever happened to each PDF and to the
\* comparison; the result is absent only when there is no PDF.
C9_SiempreFinaliza ==
    (entrada = "lote" /\ lote.pc \in {"fin", "abortado"}) =>
        IF archivos_pdf = <<>>
        THEN lote.retorno = None
        ELSE lote.guardado /\ lote.retorno = Str(RUTA_EXCEL)

(***************************************************************************)
(* Properties of get_factura_data_from_db.                                 *)
(***************************************************************************)
\* the rows the date-range query of this call gives
FilasEnRango ==
    {i \in DOMAIN db_tabla :
        /\ FechaMenorIgual(bd.fecha_inicio.f, db_tabla[i].fechafacturacion)
        /\ FechaMenorIgual(db_tabla[i].fechafacturacion, bd.fecha_fin.f)
        /\ (bd.fronteras # None /\ bd.fronteras.l # <<>>) =>
              db_tabla[i].frt \in Rango(bd.fronteras.l)}

\* C10: within one call the fallback query is executed if and only if the
\* date-range query returned no rows and a non-empty frontier list was given; it
\* runs after the date-range query and at most once, so a date-range result that
\* covers only some of the requested frontiers never triggers it.
C10_Alternativa ==
    /\ bd.consultas \in {<<>>, <<"principal">>, <<"principal", "alternativa">>}
    /\ bd.pc = "alternativa" => bd.consultas = <<"principal">>
    /\ bd.pc \in {"alternativa", "cerrar"} =>
          ((bd.pc = "alternativa" \/ bd.consultas = <<"principal", "alternativa">>)
              <=> (FilasEnRango = {} /\ bd.fronteras # None /\ bd.fronteras.l # <<>>))

\* two frontiers asked, the date-range query gave rows of one only: no fallback
C10_Witness ==
    /\ bd.pc = "cerrar"
    /\ bd.fronteras = Lista(<<FRONTERA_1, FRONTERA_2>>)
    /\ bd.results # <<>>
    /\ \A i \in DOMAIN bd.results : bd.results[i].frt = FRONTERA_1
    /\ \E i \in DOMAIN db_tabla : db_tabla[i].frt = FRONTERA_2
    /\ bd.consultas = <<"principal">>


\* the fetched rows of the invoice's frontier with the latest billing date
MasRecientes(f) ==
    {r \in Rango(FilasDeFrontera(f)) :
        \A q \in Rango(FilasDeFrontera(f)) :
            FechaMenorIgual(q.fechafacturacion, r.fechafacturacion)}

\* C11: when several fetched rows match an invoice's frontier, the comparison
\* uses exactly one of them, the first returned, and that row is the most recent
\* (latest billing date) among the matching rows, whichever query gave the result.
C11_MasReciente ==
    ComparacionConDatos =>
        \A i \in DOMAIN cmp.facturas_procesadas :
            LET f == cmp.facturas_procesadas[i]
            IN (ConFilaDB(f) /\ Len(FilasDeFrontera(f)) > 1) =>
                /\ FilasDeFrontera(f)[1] \in MasRecientes(f)
                /\ \A r \in FilasResultado(f, "neto_pagar") :
                      r.Valor_Datalake = Num(AFloat(FilasDeFrontera(f)[1].val))


\* the rows the query that ran last gives
ResultadoCompleto ==
    IF bd.consultas = <<"principal", "alternativa">>
    THEN ConsultaAlternativa(db_tabla, bd.fronteras)
    ELSE ConsultaPrincipal(db_tabla, bd.fecha_inicio.f, bd.fecha_fin.f, bd.fronteras)

\* C12: connect and get_factura_data_from_db never raise to their caller: when
\* the connection fails connect gives no connection, and on any connection or
\* query failure the fetch returns None, never a partial result.
C12_SinExcepcion ==
    bd.pc = "fin" =>
        /\ bd.retorno # Excepcion
        /\ bd.conn \in {"ninguna", "abierta"} => bd.retorno = None
        /\ bd.retorno # None =>
              /\ bd.retorno.t = "df"
              /\ bd.conn = "cerrada"
              /\ bd.retorno.filas = ResultadoCompleto

\* the fallback query raised after the date-range query had run: None is returned
C12_Witness ==
    /\ bd.pc = "fin"
    /\ bd.conn = "abierta"
    /\ bd.consultas = <<"principal">>
    /\ bd.results = <<>>
    /\ bd.fronteras # None
    /\ bd.retorno = None


\* C13: every connection opened by a call of get_factura_data_from_db is closed
\* before the call returns, on every path, the failure of the date-range or of
\* the fallback query included.
C13_ConexionCerrada ==
    bd.pc = "fin" => bd.conn # "abierta"


(***************************************************************************)
(* Properties of the date range.                                           *)
(***************************************************************************)
\* the billing periods of the invoices that parse: the start, and the end if any
Utilizable(p) ==
    /\ p.t = "periodo"
    /\ FechaValida(p.inicio)
    /\ p.fin # SinFecha => FechaValida(p.fin)
PeriodosUtilizables ==
    {cmp.facturas_procesadas[i].datos_generales["periodo_facturacion"] :
        i \in {j \in DOMAIN cmp.facturas_procesadas :
                 Utilizable(cmp.facturas_procesadas[j].datos_generales["periodo_facturacion"])}}
FinDe(p) == IF p.fin = SinFecha THEN UltimoDiaDelMes(p.inicio) ELSE p.fin
PrimerInicio ==
    CHOOSE f \in {p.inicio : p \in PeriodosUtilizables} :
        \A p \in PeriodosUtilizables : FechaMenorIgual(f, p.inicio)
UltimoFin ==
    CHOOSE f \in {FinDe(p) : p \in PeriodosUtilizables} :
        \A p \in PeriodosUtilizables : FechaMenorIgual(FinDe(p), f)

\* the comparison derived the dates itself and has called the fetch
FechasDerivadas ==
    /\ cmp.pc \in {"esperando", "fin"}
    /\ bd.pc # "inactivo"
    /\ (cmp.fecha_inicio = None \/ cmp.fecha_fin = None)

\* C14: over invoices with at least one usable billing period, the derived range
\* is the first day of the month of the earliest period start through the last
\* day of the month of the latest period end, a single-date period ending on the
\* last day of its month.
C14_RangoDeMeses ==
    (FechasDerivadas /\ PeriodosUtilizables # {}) =>
        /\ bd.fecha_inicio = Fecha(<<PrimerInicio[1], PrimerInicio[2], 1>>)
        /\ bd.fecha_fin = Fecha(<<UltimoFin[1], UltimoFin[2],
                                 DiasDelMes(UltimoFin[1], UltimoFin[2])>>)


(***************************************************************************)
(* Properties of main.py.                                                  *)
(***************************************************************************)
\* C15: when a reference date D is given to procesar_factura or to
\* procesar_directorio, the window handed to the comparison is the whole calendar
\* month of D: from the first to the last day of D's month, whatever the day of D.
C15_MesCompleto ==
    (principal.pc = "esperando" /\ principal.fecha_seleccionada # None) =>
        LET D == principal.fecha_seleccionada.f
            primero == Fecha(<<D[1], D[2], 1>>)
            ultimo == Fecha(<<D[1], D[2], DiasDelMes(D[1], D[2])>>)
        IN IF entrada = "directorio"
           THEN lote.fecha_inicio = primero /\ lote.fecha_fin = ultimo
           ELSE cmp.fecha_inicio = primero /\ cmp.fecha_fin = ultimo

(***************************************************************************)
(* Properties of FacturaProcessor.                                         *)
(***************************************************************************)
\* a ProcessedInvoice was returned
HayResultado == proc.pc = "fin" /\ proc.retorno.t = "resultado"

\* C16: a ProcessedInvoice with zero extracted components has es_valida = false
\* and a non-empty errores list, whatever its general fields contain.
C16_SinComponentes ==
    (HayResultado /\ proc.retorno.componentes = <<>>)
        => /\ proc.retorno.validacion.es_valida = FALSE
           /\ proc.retorno.validacion.errores # <<>>

\* a ProcessedInvoice without components whose required fields are all present:
\* the missing components are its only error
C16_Witness ==
    /\ HayResultado
    /\ proc.retorno.componentes = <<>>
    /\ proc.retorno.validacion.es_valida = FALSE
    /\ proc.retorno.validacion.errores = <<ERROR_COMPONENTES>>

\* one of the required fields is 0, the sentinel, absent or empty
RequeridoAusente(datos_generales) ==
    \E i \in DOMAIN campos_requeridos :
        LET campo == campos_requeridos[i]
        IN \/ campo \notin DOMAIN datos_generales
           \/ datos_generales[campo] \in {Str(NO_ENCONTRADO), Str(""), Cadena(<<>>)}
           \/ (EsNumero(datos_generales[campo]) /\ datos_generales[campo].v = 0)

\* C17: when fecha_vencimiento, periodo_facturacion or neto_pagar is 0, the
\* sentinel "No encontrado", absent or empty, validation returns a result with
\* es_valida = false and an entry in errores; it returns, it does not fail.
C17_RequeridoAusente ==
    (proc.pc = "fin" /\ RequeridoAusente(proc.datos_generales))
        => /\ proc.retorno.t = "resultado"
           /\ proc.retorno.validacion.es_valida = FALSE
           /\ proc.retorno.validacion.errores # <<>>

\* C18: in every ValidationResult es_valida is false if and only if errores is
\* non-empty; the subtotal warning, added when |diferencia_subtotal| > 1, only
\* adds to advertencias and never changes es_valida.
C18_InvalidaSiiErrores ==
    HayResultado =>
        LET validacion == proc.retorno.validacion
            diferencia == proc.retorno.totales_calculados.diferencia_subtotal
        IN /\ (validacion.es_valida = FALSE) <=> (validacion.errores # <<>>)
           /\ (validacion.advertencias # <<>>) <=> AbsMayorQueUno(diferencia)
           /\ \A i \in DOMAIN validacion.errores :
                  validacion.errores[i] # ADVERTENCIA_SUBTOTAL

\* a valid invoice that carries the subtotal warning
C18_Witness ==
    /\ HayResultado
    /\ proc.retorno.validacion.advertencias = <<ADVERTENCIA_SUBTOTAL>>
    /\ proc.retorno.validacion.errores = <<>>
    /\ proc.retorno.validacion.es_valida = TRUE

\* the general fields the coercion converts, and the raw values the extractor's
\* patterns give them: the sentinel or a non-empty string
CamposNumericos(datos_generales) == DOMAIN datos_generales \ campos_no_numericos
EsCrudo(value) == value = Str(NO_ENCONTRADO) \/ (value.t = "chars" /\ value.c # <<>>)

\* C19: after the coercion every general field other than fecha_vencimiento,
\* periodo_facturacion, codigo_sic and numero_factura holds a native integer or
\* float, the sentinel becoming 0, for every non-empty raw string over digits,
\* commas, periods and minus signs.
C19_TodoNumerico ==
    (proc.pasadas >= 1 /\ \A key \in CamposNumericos(proc.extraidos) :
                              EsCrudo(proc.extraidos[key]))
        => \A key \in CamposNumericos(proc.extraidos) :
               /\ EsNumero(proc.datos_generales[key])
               /\ proc.extraidos[key] = Str(NO_ENCONTRADO)
                      => proc.datos_generales[key] = Entero(0)

\* every converted field already holds a number ("N/A" and the concept of a
\* component are never converted)
YaNumerica(datos_generales, datos_componentes) ==
    /\ \A key \in CamposNumericos(datos_generales) : EsNumero(datos_generales[key])
    /\ \A i \in DOMAIN datos_componentes :
           \A key \in DOMAIN datos_componentes[i] \ {"concepto"} :
               \/ EsNumero(datos_componentes[i][key])
               \/ datos_componentes[i][key] = Str("N/A")

\* C20: running the numeric coercion a second time on an already-numeric
\* ProcessedInvoice changes no general field and no component field.
C20_Idempotente ==
    (proc.pasadas >= 2 /\ YaNumerica(proc.previos[1], proc.previos[2]))
        => /\ proc.datos_generales = proc.previos[1]
           /\ proc.datos_componentes = proc.previos[2]

\* a second coercion over an invoice with a negative float, positive integers
\* and a component
C20_Witness ==
    /\ proc.pasadas = 2
    /\ YaNumerica(proc.previos[1], proc.previos[2])
    /\ proc.previos[2] # <<>>
    /\ proc.previos[1]["neto_pagar"].t = "float"
    /\ proc.previos[1]["neto_pagar"].v < 0
    /\ proc.datos_generales["ir"] = Entero(10)

(***************************************************************************)
(* Properties of the extractors.                                           *)
(***************************************************************************)
\* the integer a captured addend stands for: 0 for the sentinel, the digits
\* without thousands separators otherwise; no integer for any other text
EsEnteroConMiles(value) ==
    \/ value = Str(NO_ENCONTRADO)
    \/ /\ value.t = "chars"
       /\ LET ds == SelectSeq(value.c, LAMBDA c : c # ",")
              cifras == IF ds # <<>> /\ ds[1] = "-" THEN Tail(ds) ELSE ds
          IN cifras # <<>> /\ \A i \in DOMAIN cifras : cifras[i] \in Digitos
ValorConMiles(value) ==
    IF value = Str(NO_ENCONTRADO) THEN 0
    ELSE LET ds == SelectSeq(value.c, LAMBDA c : c # ",")
         IN IF ds[1] = "-" THEN -ValorDigitos(Tail(ds)) ELSE ValorDigitos(ds)
SumaDeResultado(results) ==
    ValorConMiles(results["subtotal_base_energia"]) + ValorConMiles(results["contribucion"])
Sumable(results) ==
    EsEnteroConMiles(results["subtotal_base_energia"])
        /\ EsEnteroConMiles(results["contribucion"])
\* the thousands-formatted text of n: its digits in groups of three from the right
EsFormatoDe(cs, n) ==
    /\ cs # <<>>
    /\ \A i \in DOMAIN cs :
           (cs[i] = ",") <=> ((Len(cs) - i + 1) % 4 = 0 /\ i > 1 /\ cs[i - 1] # "-")
    /\ EsEnteroConMiles(Cadena(cs))
    /\ ValorConMiles(Cadena(cs)) = n

\* C21 as stated: in every result of the field extractor
\* subtotal_energia_contribucion_pesos is the thousands-formatted sum of
\* subtotal_base_energia and contribucion (separators removed, the sentinel
\* counted as 0).
C21_SumaSiempre ==
    ext.pc = "campos_fin"
        => /\ Sumable(ext.retorno)
           /\ ext.retorno[CALCULADO].t = "chars"
           /\ EsFormatoDe(ext.retorno[CALCULADO].c, SumaDeResultado(ext.retorno))

\* C21: the field is the thousands-formatted sum whenever both addends are
\* integers or the sentinel, and the sentinel otherwise; it is never the value
\* the document prints.
C21_SumaOCentinela ==
    ext.pc = "campos_fin"
        => IF Sumable(ext.retorno)
           THEN /\ ext.retorno[CALCULADO].t = "chars"
                /\ EsFormatoDe(ext.retorno[CALCULADO].c, SumaDeResultado(ext.retorno))
           ELSE ext.retorno[CALCULADO] = Str(NO_ENCONTRADO)

\* 999 + 1,000 = 1,999 while the document prints 7
C21_Witness ==
    /\ ext.pc = "campos_fin"
    /\ ext.content[CALCULADO] = Cadena(<<"7">>)
    /\ ext.retorno["subtotal_base_energia"] = Cadena(<<"9", "9", "9">>)
    /\ ext.retorno["contribucion"] = Cadena(<<"1", ",", "0", "0", "0">>)
    /\ ext.retorno[CALCULADO] = Cadena(<<"1", ",", "9", "9", "9">>)

\* the result of a component extractor: at most one component per concept,
\* and what the patterns found is still there as they found it
SinDuplicados(concepto_data) ==
    \A j, k \in DOMAIN concepto_data :
        concepto_data[j].concepto = concepto_data[k].concepto => j = k
ConservaPatrones(e) ==
    \A k \in DOMAIN e.concepto_data : e.concepto_data[k] \in Rango(e.retorno)
SoloSiFaltan(e) == e.linea_por_linea => Len(e.concepto_data) < 8

\* C22: the result of the component extractor has at most one component per
\* concept (at most 8); the line-by-line tier runs only when fewer than 8
\* concepts were resolved and never adds or replaces a concept the pattern
\* tier resolved; missing concepts are omitted.
C22_SinDuplicados ==
    ext.pc \in {"componentes_fin", "tabla_fin"}
        => /\ SinDuplicados(ext.retorno)
           /\ Len(ext.retorno) <= 8
           /\ SoloSiFaltan(ext)
           /\ ConservaPatrones(ext)

\* the first line of a concept carries a quantity column, and the component
\* of that concept in the result
ConColumnaDeCantidad(content, nombre) ==
    \E i \in DOMAIN content.lineas :
        /\ content.lineas[i].concepto = nombre
        /\ \A j \in 1..(i - 1) : content.lineas[j].concepto # nombre
        /\ Len(content.lineas[i].partes) = 5
        /\ content.lineas[i].partes[1] = V120

\* C26: for the Generacion row and the reactive-energy row, whenever the
\* matched pattern or line carries a quantity column, kwh_kvarh is that
\* quantity taken from the row itself: the row 120, 15.5, "1,000", "-200",
\* "800" yields kwh_kvarh "120", precio_kwh "15.5", mes_corriente "1000",
\* mes_anteriores "-200", total "800".
C26_CantidadDeLaFila ==
    ext.pc = "componentes_fin"
        => \A nombre \in ConCantidad :
               ConColumnaDeCantidad(ext.content, nombre)
                   => \E k \in DOMAIN ext.retorno :
                          /\ ext.retorno[k].concepto = nombre
                          /\ ext.retorno[k].kwh_kvarh = V120

\* rows of the Conceptos sheet written by the first i calls
RECURSIVE ConceptosHasta(_, _)
ConceptosHasta(llamadas, i) ==
    IF i = 0 THEN 0
    ELSE ConceptosHasta(llamadas, i - 1) + Len(llamadas[i].datos_procesados.componentes)
\* a sheet with one row per call, in the order of the calls
UnaFilaPorLlamada(ws, llamadas) ==
    /\ DOMAIN ws = 1..(Len(llamadas) + 1)
    /\ ws[1] = CABECERA
    /\ \A i \in DOMAIN llamadas :
           /\ ws[i + 1].ID_Factura = llamadas[i].id
           /\ ws[i + 1].Codigo_SIC = llamadas[i].datos_procesados.datos_generales.codigo_sic
UnaFilaPorComponente(ws, llamadas) ==
    /\ DOMAIN ws = 1..(ConceptosHasta(llamadas, Len(llamadas)) + 1)
    /\ ws[1] = CABECERA
    /\ \A i \in DOMAIN llamadas :
           \A j \in DOMAIN llamadas[i].datos_procesados.componentes :
               LET fila == ws[1 + ConceptosHasta(llamadas, i - 1) + j]
               IN /\ fila.ID_Factura = llamadas[i].id
                  /\ fila.Concepto = llamadas[i].datos_procesados.componentes[j].concepto
IdentificadoresDistintos(llamadas) ==
    \A i, j \in DOMAIN llamadas : llamadas[i].id = llamadas[j].id => i = j

\* C23: after any sequence of n agregar_factura calls on an exporter, the
\* Facturas, Autorizaciones and Datos_OR sheets hold exactly n data rows below
\* the header, the Conceptos sheet one row per component of the added invoices,
\* the row of every call is still the one that call wrote and carries the
\* identifier the call returned, and the identifiers returned are distinct.
C23_UnaFilaPorFactura ==
    exportador.pc = "abierto" =>
        /\ UnaFilaPorLlamada(exportador.ws_facturas, exportador.llamadas)
        /\ UnaFilaPorLlamada(exportador.ws_autorizaciones, exportador.llamadas)
        /\ UnaFilaPorLlamada(exportador.ws_parametros, exportador.llamadas)
        /\ UnaFilaPorComponente(exportador.ws_conceptos, exportador.llamadas)
        /\ \A i \in DOMAIN exportador.llamadas :
               exportador.ws_facturas[i + 1].Nombre_Archivo \in
                   {exportador.llamadas[i].nombre_archivo, Str(NO_ESPECIFICADO)}
        /\ IdentificadoresDistintos(exportador.llamadas)
\* three calls, the same invoice twice, one invoice without components and one
\* with three
C23_Witness ==
    /\ entrada = "exportador"
    /\ Len(exportador.llamadas) = 3
    /\ exportador.llamadas[1].datos_procesados = exportador.llamadas[3].datos_procesados
    /\ Len(exportador.llamadas[1].datos_procesados.componentes) = 3
    /\ exportador.llamadas[2].datos_procesados.componentes = <<>>
    /\ DOMAIN exportador.ws_conceptos = 1..7

\* the names of the rows of sub-fields without a database column
SinColumnaDB ==
    {par[1] \o "_" \o par[2] :
        par \in {q \in ConceptosMapeados \X Rango(CamposDetalle) :
                    componentes_map(q[1], q[2]) = None}}

\* C24: the comparison never returns a row for a component sub-field that has
\* no database column (kwh_kvarh of a component other than Generacion and the
\* reactive row), whatever the fetch gave: rows, no row of the frontier, no
\* row at all or nothing.
C24_SinFilaSinColumna ==
    (cmp.pc = "fin" /\ cmp.retorno.t = "df") =>
        \A r \in Rango(cmp.retorno.filas) : r.Concepto \notin SinColumnaDB

\* the comparison was invoked in this run
ComparacionInvocada == cmp.pc # "inactivo"
\* the invoices handed to the comparison carry the identifiers agregar_factura
\* returned, in the order of the calls
ConIdentificadorDevuelto ==
    /\ Len(cmp.facturas_procesadas) = Len(exportador.llamadas)
    /\ \A i \in DOMAIN cmp.facturas_procesadas :
           cmp.facturas_procesadas[i].id = exportador.llamadas[i].id
\* the comparison is invoked only once the loop over the PDFs is over, over the
\* invoices accumulated, and the workbook is saved only after it has returned
ComparaDespuesDelBucle ==
    (lote.pc # "inactivo" /\ ComparacionInvocada) =>
        /\ lote.pc \in {"comparando", "finalizar", "fin"}
        /\ lote.idx > Len(archivos_pdf)
        /\ cmp.facturas_procesadas = lote.facturas_procesadas
        /\ cmp.facturas_procesadas # <<>>
        /\ ConIdentificadorDevuelto
        /\ lote.guardado => cmp.pc = "fin"

\* C25: in one run over a directory the database comparison is invoked only
\* after every PDF was processed or skipped, if and only if at least one
\* invoice was accumulated, over invoices that carry the identifier returned
\* by agregar_factura, and the workbook is finalized after it.
C25_UnaComparacionPorLote ==
    /\ ComparaDespuesDelBucle
    /\ lote.pc \in {"fin", "abortado"} =>
           (ComparacionInvocada <=> lote.facturas_procesadas # <<>>)

\* the value was a string before the coercion and is a string after it
QuedaComoCadena(antes, despues) == antes.t = "chars" /\ despues.t = "chars"

\* C27: a string that fails numeric parsing is returned by the coercion as it
\* was given, equal to its input: no separator, quote or sign removed.
C27_CadenaIntacta ==
    proc.pasadas >= 1
        => \A key \in CamposNumericos(proc.previos[1]) :
               QuedaComoCadena(proc.previos[1][key], proc.datos_generales[key])
                   => proc.datos_generales[key] = proc.previos[1][key]

\* the fragments seen so far that carry text
Agrupados == {pdf.layout[i] : i \in {j \in 1..(pdf.idx - 1) : pdf.layout[j].tiene_texto}}
\* every fragment seen is in the row of the key, and nowhere else
EnFilaDe(Clave(_)) ==
    \A e \in Agrupados :
        \A y \in DOMAIN pdf.elementos_por_y :
            (e \in Rango(pdf.elementos_por_y[y])) <=> (y = Clave(e.y0))

CamposSinColumna == {campo \in Campos : ColumnaDe(campo) \notin bd.retorno.columnas}
\* the invoice value of a field as the comparison reads it: a number, text that
\* is no number counting as 0
ValorComparado(f, campo) == AFloat(Get(f.datos_generales, campo, Num(0)))

\* C29: a general field whose database column is not among the columns of the
\* fetched result (ajuste_decena, which no query selects) is compared against
\* 0: for an invoice whose frontier has a database row its row is "Alerta" with
\* Diferencia 100 when the invoice value is not zero and "OK" with Diferencia 0
\* when it is, and never "No encontrado en DB".
C29_ColumnaAusenteEsCero ==
    ComparacionConDatos =>
        \A f \in Rango(cmp.facturas_procesadas) :
            ConFilaDB(f) =>
                \A campo \in CamposSinColumna :
                    /\ FilasResultado(f, campo) # {}
                    /\ \A r \in FilasResultado(f, campo) :
                           /\ r.Valor_Datalake = Num(0)
                           /\ r.Estado # NO_ENCONTRADO_EN_DB
                           /\ ValorComparado(f, campo) # 0
                                  => /\ r.Estado = "Alerta"
                                     /\ r.Diferencia = Pct(DIFERENCIA_SIN_BASE, 1)
                           /\ ValorComparado(f, campo) = 0
                                  => /\ r.Estado = "OK"
                                     /\ r.Diferencia = Pct(0, 1)
\* an invoice with a database row whose ajuste_decena is not zero: its row is
\* an alert of 100 against a database value of 0
C29_Witness ==
    /\ ComparacionConDatos
    /\ "ajuste_decena" \in CamposSinColumna
    /\ \E f \in Rango(cmp.facturas_procesadas) :
           /\ ConFilaDB(f)
           /\ f.datos_generales["ajuste_decena"] = Num(MaxDelta)
           /\ \E r \in FilasResultado(f, "ajuste_decena") :
                  /\ r.Estado = "Alerta"
                  /\ r.Valor_Datalake = Num(0)
                  /\ r.Diferencia = Pct(DIFERENCIA_SIN_BASE, 1)

AmbasComparaciones == equiv.monolitico # Pendiente /\ equiv.modular # Pendiente

\* C30: given the same list of processed invoices and the same fetched table,
\* the method DBConnector.compare_with_facturas and the function
\* compare_with_facturas of db_connector_comparacion return the same sequence
\* of rows: same Concepto, Valor_Factura, Valor_Datalake, Diferencia and Estado.
C30_MismasFilas == AmbasComparaciones => equiv.monolitico = equiv.modular

====
